---- MODULE Spec2Model ----
(***************************************************************************)
(* Control stack of the biped: the gait generator's phase machine and      *)
(* direct joint planning (src/control/gait_generator.py), the posture and  *)
(* height PID controllers and the standing controller                      *)
(* (src/control/posture_controller.py), and the gait + posture composition *)
(* of the locomotion loops (tests/test_stepping.py, test_walking.py,       *)
(* test_turning.py).                                                       *)
(*                                                                         *)
(* Floating point quantities are carried as exact integers in fixed units: *)
(*   step_period          0.1 s           (step_period 2.0 s  = 20)        *)
(*   double_support_ratio tenths          (0.3                = 3)         *)
(*   phase durations, dt  0.01 s          (period * ratio, exact product)  *)
(*   lengths              millimetres     (step_height 0.02 m = 20)        *)
(*   joint angles         millidegrees    (35 degrees         = 35000)     *)
(*   turn_rate            degrees per step                                 *)
(*   roll / pitch         degrees, integrals in degree * 0.01 s            *)
(*   height               millimetres, integral in mm * 0.01 s             *)
(*   leg geometry, foot   micrometres     (thigh 0.12 m = 120000, the      *)
(*   targets                               margin 1e-6 m of the solver = 1)*)
(*   angles of the solver hundredths of a degree, millidegrees returned *)
(* phase_time and total_time are carried in the unit of the durations      *)
(* (0.01 s), so that "phase_time >= double_dur" compares exact values.     *)
(***************************************************************************)
EXTENDS Integers, Sequences, FiniteSets, TLC

VARIABLES
    \* GaitGenerator
    params,        \* self.params  (GaitParams)
    double_dur,    \* self.double_dur
    swing_dur,     \* self.swing_dur
    phase,         \* self.phase
    phase_time,    \* self.phase_time
    total_time,    \* self.total_time
    step_count,    \* self.step_count
    \* the caller's view of the last GaitGenerator call
    op,            \* which method was called last
    arg_dt,        \* the dt passed to the last update
    ret,           \* how the last call ended: "none", "joints" or "ZeroDivisionError"
    joints,        \* the joint map the last call returned (ZeroPose when it returned none)
    swing_log,     \* the swing phases entered so far, oldest first (phase log of the tests)
    \* StandingController
    sc_posture,    \* self.posture  (PostureController)
    sc_com,        \* self.com      (CenterOfMassController)
    base_pose,     \* self.base_pose
    sc_op,         \* which controller method was called last
    sc_dt,         \* the dt passed to it
    sc_ret,        \* what it returned: rc, pc of PostureController.update, hc of
                   \* CenterOfMassController.update, out of compute_control
    \* locomotion loop (test_stepping, test_walking, test_turning)
    posture_pid,   \* the loop's PostureController
    meas,          \* the measured state read at the start of the tick
    pid_ret,       \* the (rc, pc) posture_pid.update returned in the tick
    pid_corr,      \* compute_joint_corrections(rc, pc) of the tick
    final,         \* the joint map sent to the environment
    lock,          \* the position of the control loop in its pass: which loop, the
                   \* statement to run next (pc) and, for the current pass, the
                   \* controller advances, the writes of targets and the physics
                   \* sub-steps done so far
    pair_fed,      \* two controllers run side by side: whether posture_pid has been
                   \* fed the same roll values / the same pitch values as sc_posture
                   \* in every update so far
    other,         \* a second GaitGenerator and the GaitParams objects the two
                   \* generators refer to; <<>> while there is one generator
    \* inverse kinematics (solve_leg_ik, compute_leg_joints)
    geom,          \* the LegGeometry constructed
    ik_op,         \* which function was called last
    ik_arg,        \* its arguments: target x, z, foot_roll, side
    ik_ret         \* what it returned, with the distance d it used

gaitVars == <<params, double_dur, swing_dur, phase, phase_time, total_time,
              step_count, op, arg_dt, ret, joints, swing_log>>

ctlVars == <<sc_posture, sc_com, base_pose, sc_op, sc_dt, sc_ret>>

loopVars == <<posture_pid, meas, pid_ret, pid_corr, final, lock, pair_fed, other>>

ikVars == <<geom, ik_op, ik_arg, ik_ret>>

vars == <<gaitVars, ctlVars, loopVars, ikVars>>

----------------------------------------------------------------------------
\* Bounds of the model

MaxSteps == 2        \* update is not called any more once step_count reached this
MaxBackTime == 40    \* update with a negative dt is not called below -MaxBackTime
MaxStepTime == 700   \* update is not called beyond MaxSteps * MaxStepTime of total_time
MaxLog == 2          \* swing_log keeps the last MaxLog swing phases

----------------------------------------------------------------------------
\* Fixed point helpers

\* a / b rounded toward zero, b > 0
Div(a, b) == IF a >= 0 THEN a \div b ELSE -((-a) \div b)

Abs(x) == IF x >= 0 THEN x ELSE -x

\* np.clip(x, lo, hi)
Clip(x, lo, hi) == IF x < lo THEN lo ELSE IF x > hi THEN hi ELSE x

\* 1000 * sin(pi * n / d) for 0 <= n <= d, by Bhaskara's rational approximation
\* 16 x (1 - x) / (5 - 4 x (1 - x)); exact at x = 0, 1/6, 1/2, 5/6, 1.
SinHalfTurn(n, d) == (16000 * n * (d - n)) \div (5 * d * d - 4 * n * (d - n))

\* np.sin(np.pi * n / d) scaled by 1000, for any integer n and d > 0
SinPi(n, d) ==
    LET m == n % (2 * d)
    IN  IF m <= d THEN SinHalfTurn(m, d) ELSE -SinHalfTurn(m - d, d)

----------------------------------------------------------------------------
\* GaitPhase, GaitParams

DOUBLE_SUPPORT == "DOUBLE_SUPPORT"
LEFT_SWING     == "LEFT_SWING"
RIGHT_SWING    == "RIGHT_SWING"
GaitPhase == {DOUBLE_SUPPORT, LEFT_SWING, RIGHT_SWING}

JointNames == {"head_pitch",
               "left_hip_roll", "left_hip_pitch", "left_knee", "left_ankle_pitch",
               "right_hip_roll", "right_hip_pitch", "right_knee", "right_ankle_pitch"}

\* GaitParams(step_period = T, double_support_ratio = r), other fields default
GaitParams(T, r) ==
    [step_height |-> 20, step_length |-> 0, step_period |-> T,
     double_support_ratio |-> r, com_shift_y |-> 20, turn_rate |-> 0,
     foot_x_offset |-> 0, foot_z_stand |-> -220]

\* The configurations a generator is constructed with: the default (2.0 s, 0.3),
\* a short period, and the boundary ratios 0 and 1 and the period 0.
Configs == {<<20, 3>>, <<8, 5>>, <<20, 0>>, <<20, 10>>, <<0, 3>>}

\* The arguments of update, set_velocity
DtSet      == {-40, 0, 40, 240}
ForwardSet == {0, 100}
TurnSet    == {-15, 0, 15}

----------------------------------------------------------------------------
\* GaitGenerator

\* double_dur computed as the whole period
DoubleDur_WholePeriod(p) == p.step_period * 10

\* _update_durations: double_dur = T * dr
DoubleDur(p) == p.step_period * p.double_support_ratio

\* swing_dur computed as T * dr
SwingDur_AsRatio(p) == p.step_period * p.double_support_ratio

\* _update_durations: swing_dur = T * (1 - dr)
SwingDur(p) == p.step_period * (10 - p.double_support_ratio)

\* _check_transition with the parity test of line 115 inverted
CheckTransition_SwappedParity(ph, pt, sc, ddur, sdur) ==
    IF ph = DOUBLE_SUPPORT
    THEN IF pt >= ddur
         THEN [phase |-> IF sc % 2 = 0 THEN RIGHT_SWING ELSE LEFT_SWING,
               phase_time |-> 0, step_count |-> sc]
         ELSE [phase |-> ph, phase_time |-> pt, step_count |-> sc]
    ELSE IF pt >= sdur
         THEN [phase |-> DOUBLE_SUPPORT, phase_time |-> 0, step_count |-> sc + 1]
         ELSE [phase |-> ph, phase_time |-> pt, step_count |-> sc]

\* _check_transition counting a step when the foot is lifted as well
CheckTransition_CountsOnLift(ph, pt, sc, ddur, sdur) ==
    IF ph = DOUBLE_SUPPORT
    THEN IF pt >= ddur
         THEN [phase |-> IF sc % 2 = 0 THEN LEFT_SWING ELSE RIGHT_SWING,
               phase_time |-> 0, step_count |-> sc + 1]
         ELSE [phase |-> ph, phase_time |-> pt, step_count |-> sc]
    ELSE IF pt >= sdur
         THEN [phase |-> DOUBLE_SUPPORT, phase_time |-> 0, step_count |-> sc + 1]
         ELSE [phase |-> ph, phase_time |-> pt, step_count |-> sc]

\* _check_transition without the parity test: the left foot swings every time
CheckTransition_AlwaysLeft(ph, pt, sc, ddur, sdur) ==
    IF ph = DOUBLE_SUPPORT
    THEN IF pt >= ddur
         THEN [phase |-> LEFT_SWING, phase_time |-> 0, step_count |-> sc]
         ELSE [phase |-> ph, phase_time |-> pt, step_count |-> sc]
    ELSE IF pt >= sdur
         THEN [phase |-> DOUBLE_SUPPORT, phase_time |-> 0, step_count |-> sc + 1]
         ELSE [phase |-> ph, phase_time |-> pt, step_count |-> sc]

\* _check_transition comparing with > instead of >=
CheckTransition_Strict(ph, pt, sc, ddur, sdur) ==
    IF ph = DOUBLE_SUPPORT
    THEN IF pt > ddur
         THEN [phase |-> IF sc % 2 = 0 THEN LEFT_SWING ELSE RIGHT_SWING,
               phase_time |-> 0, step_count |-> sc]
         ELSE [phase |-> ph, phase_time |-> pt, step_count |-> sc]
    ELSE IF pt > sdur
         THEN [phase |-> DOUBLE_SUPPORT, phase_time |-> 0, step_count |-> sc + 1]
         ELSE [phase |-> ph, phase_time |-> pt, step_count |-> sc]

\* _check_transition in which the right foot, once lifted, is never put down
CheckTransition_NoReturn(ph, pt, sc, ddur, sdur) ==
    IF ph = DOUBLE_SUPPORT
    THEN IF pt >= ddur
         THEN [phase |-> IF sc % 2 = 0 THEN LEFT_SWING ELSE RIGHT_SWING,
               phase_time |-> 0, step_count |-> sc]
         ELSE [phase |-> ph, phase_time |-> pt, step_count |-> sc]
    ELSE IF pt >= sdur /\ ph = LEFT_SWING
         THEN [phase |-> DOUBLE_SUPPORT, phase_time |-> 0, step_count |-> sc + 1]
         ELSE [phase |-> ph, phase_time |-> pt, step_count |-> sc]

\* _check_transition that does not zero phase_time when a foot is lifted
CheckTransition_KeepsTime(ph, pt, sc, ddur, sdur) ==
    IF ph = DOUBLE_SUPPORT
    THEN IF pt >= ddur
         THEN [phase |-> IF sc % 2 = 0 THEN LEFT_SWING ELSE RIGHT_SWING,
               phase_time |-> pt, step_count |-> sc]
         ELSE [phase |-> ph, phase_time |-> pt, step_count |-> sc]
    ELSE IF pt >= sdur
         THEN [phase |-> DOUBLE_SUPPORT, phase_time |-> 0, step_count |-> sc + 1]
         ELSE [phase |-> ph, phase_time |-> pt, step_count |-> sc]

\* _check_transition that carries the overshoot into the new phase and goes
\* on to the phase after it when the overshoot covers that one too
CheckTransition_Cascades(ph, pt, sc, ddur, sdur) ==
    IF ph = DOUBLE_SUPPORT
    THEN IF pt >= ddur
         THEN IF pt - ddur >= sdur
              THEN [phase |-> DOUBLE_SUPPORT, phase_time |-> pt - ddur - sdur,
                    step_count |-> sc + 1]
              ELSE [phase |-> IF sc % 2 = 0 THEN LEFT_SWING ELSE RIGHT_SWING,
                    phase_time |-> pt - ddur, step_count |-> sc]
         ELSE [phase |-> ph, phase_time |-> pt, step_count |-> sc]
    ELSE IF pt >= sdur
         THEN IF pt - sdur >= ddur
              THEN [phase |-> IF sc % 2 = 0 THEN RIGHT_SWING ELSE LEFT_SWING,
                    phase_time |-> pt - sdur - ddur, step_count |-> sc + 1]
              ELSE [phase |-> DOUBLE_SUPPORT, phase_time |-> pt - sdur,
                    step_count |-> sc + 1]
         ELSE [phase |-> ph, phase_time |-> pt, step_count |-> sc]

\* _check_transition, on the phase_time already advanced by update
CheckTransition(ph, pt, sc, ddur, sdur) ==
    IF ph = DOUBLE_SUPPORT
    THEN IF pt >= ddur
         THEN [phase |-> IF sc % 2 = 0 THEN LEFT_SWING ELSE RIGHT_SWING,
               phase_time |-> 0, step_count |-> sc]
         ELSE [phase |-> ph, phase_time |-> pt, step_count |-> sc]
    ELSE IF pt >= sdur
         THEN [phase |-> DOUBLE_SUPPORT, phase_time |-> 0, step_count |-> sc + 1]
         ELSE [phase |-> ph, phase_time |-> pt, step_count |-> sc]

\* progress = min(phase_time / swing_dur, 1.0) while swinging, else 0.0,
\* as the fraction num / den with den > 0
Progress(ph, pt, sdur) ==
    IF ph \in {LEFT_SWING, RIGHT_SWING}
    THEN IF pt >= sdur THEN [num |-> 1, den |-> 1] ELSE [num |-> pt, den |-> sdur]
    ELSE [num |-> 0, den |-> 1]

\* ds_progress = min(phase_time / double_dur, 1.0) if double_dur > 0 else 1.0
DsProgress(pt, ddur) ==
    IF ddur > 0
    THEN IF pt >= ddur THEN [num |-> 1, den |-> 1] ELSE [num |-> pt, den |-> ddur]
    ELSE [num |-> 1, den |-> 1]

\* com_roll with the sides of the two swing phases exchanged
ComRoll_SwappedSides(ph, pt, sc, p, ddur) ==
    IF ph = DOUBLE_SUPPORT
    THEN LET ds == DsProgress(pt, ddur)
             ramp == SinPi(ds.num, 2 * ds.den)
         IN  IF sc % 2 = 0
             THEN Div(-(p.com_shift_y * 100) * ramp, 1000)
             ELSE Div((p.com_shift_y * 100) * ramp, 1000)
    ELSE IF ph = LEFT_SWING
         THEN p.com_shift_y * 100
         ELSE -(p.com_shift_y * 100)

\* com_roll of _compute_joint_angles_direct (millidegrees)
ComRoll(ph, pt, sc, p, ddur) ==
    IF ph = DOUBLE_SUPPORT
    THEN LET ds == DsProgress(pt, ddur)
             ramp == SinPi(ds.num, 2 * ds.den)
         IN  IF sc % 2 = 0
             THEN Div(-(p.com_shift_y * 100) * ramp, 1000)
             ELSE Div((p.com_shift_y * 100) * ramp, 1000)
    ELSE IF ph = LEFT_SWING
         THEN -(p.com_shift_y * 100)
         ELSE p.com_shift_y * 100

\* knee_target not scaled by step_height
KneeTarget_Unscaled(p) == 35000

\* knee_target = 35.0 * (step_height / 0.02)
KneeTarget(p) == 1750 * p.step_height

\* hip_pitch_target = -5.0 * (step_height / 0.02)
HipPitchTarget(p) == -250 * p.step_height

\* ankle_target = clip(-(knee_target + hip_pitch_target), -30, 30)
AnkleTarget(p) == Clip(-(KneeTarget(p) + HipPitchTarget(p)), -30000, 30000)

\* fwd_bias = step_length * 10.0
FwdBias(p) == p.step_length * 10

\* _compute_joint_angles_direct with the turn bias of lines 270-277 not
\* multiplied by swing_profile
ComputeJointAnglesDirect_UnscaledTurn(ph, pt, sc, p, ddur, sdur) ==
    LET progress         == Progress(ph, pt, sdur)
        swing_profile    == SinPi(progress.num, progress.den)
        knee_target      == KneeTarget(p)
        hip_pitch_target == HipPitchTarget(p)
        ankle_target     == AnkleTarget(p)
        com_roll         == ComRoll(ph, pt, sc, p, ddur)
        fwd_bias         == FwdBias(p)
        turning          == p.turn_rate # 0 /\ ph # DOUBLE_SUPPORT
        turn_bias        == p.turn_rate * 500
        ankle_push       == p.step_length * 15
        hip_push         == p.step_length * 20
        Shaped(a)        == Div(a * swing_profile, 1000)
        Ramped(a)        == Div(a * progress.num, progress.den)
        \* the map built at lines 255-265
        j0 == [j \in JointNames |->
                 CASE j = "left_hip_roll"     -> Div(com_roll * 3, 10)
                   [] j = "right_hip_roll"    -> Div(-com_roll * 3, 10)
                   [] j = "left_hip_pitch"    -> fwd_bias
                   [] j = "right_hip_pitch"   -> fwd_bias
                   [] j = "left_ankle_pitch"  -> Div(-fwd_bias, 2)
                   [] j = "right_ankle_pitch" -> Div(-fwd_bias, 2)
                   [] OTHER                   -> 0]
        \* the turn bias of lines 270-277
        j1 == IF turning /\ ph = LEFT_SWING
              THEN [j0 EXCEPT !["right_hip_pitch"] = @ + turn_bias,
                              !["left_hip_roll"]   = @ + Div(turn_bias * 3, 10)]
              ELSE IF turning /\ ph = RIGHT_SWING
              THEN [j0 EXCEPT !["left_hip_pitch"]  = @ - turn_bias,
                              !["right_hip_roll"]  = @ - Div(turn_bias * 3, 10)]
              ELSE j0
    IN  \* the swing leg and the support leg's push, lines 283-296
        IF ph = LEFT_SWING
        THEN [j1 EXCEPT !["left_knee"]         = Shaped(knee_target),
                        !["left_hip_pitch"]    = Shaped(hip_pitch_target) + fwd_bias,
                        !["left_ankle_pitch"]  = Shaped(ankle_target) - Div(fwd_bias, 2),
                        !["right_ankle_pitch"] = @ + Ramped(-ankle_push),
                        !["right_hip_pitch"]   = @ + Ramped(hip_push)]
        ELSE IF ph = RIGHT_SWING
        THEN [j1 EXCEPT !["right_knee"]        = Shaped(knee_target),
                        !["right_hip_pitch"]   = Shaped(hip_pitch_target) + fwd_bias,
                        !["right_ankle_pitch"] = Shaped(ankle_target) - Div(fwd_bias, 2),
                        !["left_ankle_pitch"]  = @ + Ramped(-ankle_push),
                        !["left_hip_pitch"]    = @ + Ramped(hip_push)]
        ELSE j1

\* _compute_joint_angles_direct; the division phase_time / swing_dur is
\* defined, i.e. the phase is DOUBLE_SUPPORT or swing_dur # 0
ComputeJointAnglesDirect(ph, pt, sc, p, ddur, sdur) ==
    LET progress         == Progress(ph, pt, sdur)
        swing_profile    == SinPi(progress.num, progress.den)
        knee_target      == KneeTarget(p)
        hip_pitch_target == HipPitchTarget(p)
        ankle_target     == AnkleTarget(p)
        com_roll         == ComRoll(ph, pt, sc, p, ddur)
        fwd_bias         == FwdBias(p)
        turning          == p.turn_rate # 0 /\ ph # DOUBLE_SUPPORT
        turn_bias        == p.turn_rate * 500
        ankle_push       == p.step_length * 15
        hip_push         == p.step_length * 20
        Shaped(a)        == Div(a * swing_profile, 1000)
        Ramped(a)        == Div(a * progress.num, progress.den)
        \* the map built at lines 255-265
        j0 == [j \in JointNames |->
                 CASE j = "left_hip_roll"     -> Div(com_roll * 3, 10)
                   [] j = "right_hip_roll"    -> Div(-com_roll * 3, 10)
                   [] j = "left_hip_pitch"    -> fwd_bias
                   [] j = "right_hip_pitch"   -> fwd_bias
                   [] j = "left_ankle_pitch"  -> Div(-fwd_bias, 2)
                   [] j = "right_ankle_pitch" -> Div(-fwd_bias, 2)
                   [] OTHER                   -> 0]
        \* the turn bias of lines 270-277
        j1 == IF turning /\ ph = LEFT_SWING
              THEN [j0 EXCEPT !["right_hip_pitch"] = @ + Shaped(turn_bias),
                              !["left_hip_roll"]   = @ + Div(turn_bias * 3 * swing_profile, 10000)]
              ELSE IF turning /\ ph = RIGHT_SWING
              THEN [j0 EXCEPT !["left_hip_pitch"]  = @ - Shaped(turn_bias),
                              !["right_hip_roll"]  = @ - Div(turn_bias * 3 * swing_profile, 10000)]
              ELSE j0
    IN  \* the swing leg and the support leg's push, lines 283-296
        IF ph = LEFT_SWING
        THEN [j1 EXCEPT !["left_knee"]         = Shaped(knee_target),
                        !["left_hip_pitch"]    = Shaped(hip_pitch_target) + fwd_bias,
                        !["left_ankle_pitch"]  = Shaped(ankle_target) - Div(fwd_bias, 2),
                        !["right_ankle_pitch"] = @ + Ramped(-ankle_push),
                        !["right_hip_pitch"]   = @ + Ramped(hip_push)]
        ELSE IF ph = RIGHT_SWING
        THEN [j1 EXCEPT !["right_knee"]        = Shaped(knee_target),
                        !["right_hip_pitch"]   = Shaped(hip_pitch_target) + fwd_bias,
                        !["right_ankle_pitch"] = Shaped(ankle_target) - Div(fwd_bias, 2),
                        !["left_ankle_pitch"]  = @ + Ramped(-ankle_push),
                        !["left_hip_pitch"]    = @ + Ramped(hip_push)]
        ELSE j1

\* the phase log of the driving loop: a swing phase is logged when it is entered
LogSwing(log, old, new) ==
    IF old = DOUBLE_SUPPORT /\ new # DOUBLE_SUPPORT
    THEN LET l == Append(log, new)
         IN  IF Len(l) > MaxLog THEN Tail(l) ELSE l
    ELSE log

ZeroPose == [j \in JointNames |-> 0]

\* GaitGenerator(GaitParams(step_period = T, double_support_ratio = r))
GaitInit(configs) ==
    /\ \E c \in configs : params = GaitParams(c[1], c[2])
    /\ double_dur = DoubleDur(params)
    /\ swing_dur = SwingDur(params)
    /\ phase = DOUBLE_SUPPORT
    /\ phase_time = 0
    /\ total_time = 0
    /\ step_count = 0
    /\ op = "init"
    /\ arg_dt = 0
    /\ ret = "none"
    /\ joints = ZeroPose
    /\ swing_log = <<>>

\* update(dt): advance the timers, check the transition, plan the joints.
\* phase_time / swing_dur raises ZeroDivisionError in a swing phase with
\* swing_dur = 0; the timers and the phase are already written by then.
Update(dt) ==
    /\ step_count < MaxSteps
    /\ total_time + dt >= -MaxBackTime
    /\ total_time + dt <= MaxSteps * MaxStepTime
    /\ \E t \in {CheckTransition(phase, phase_time + dt, step_count, double_dur, swing_dur)} :
           /\ phase' = t.phase
           /\ phase_time' = t.phase_time
           /\ step_count' = t.step_count
           /\ swing_log' = LogSwing(swing_log, phase, t.phase)
           /\ IF t.phase # DOUBLE_SUPPORT /\ swing_dur = 0
              THEN /\ ret' = "ZeroDivisionError"
                   /\ joints' = ZeroPose
              ELSE /\ ret' = "joints"
                   /\ joints' = ComputeJointAnglesDirect(t.phase, t.phase_time, t.step_count,
                                                         params, double_dur, swing_dur)
    /\ total_time' = total_time + dt
    /\ op' = "update"
    /\ arg_dt' = dt
    /\ UNCHANGED <<params, double_dur, swing_dur>>

\* set_velocity that also restores the default step_height
SetVelocity_RestoresHeight(forward, turn) ==
    /\ params' = [params EXCEPT !.step_length = forward, !.turn_rate = turn,
                                !.step_height = 20]
    /\ op' = "set_velocity"
    /\ arg_dt' = 0
    /\ ret' = "none"
    /\ joints' = ZeroPose
    /\ UNCHANGED <<double_dur, swing_dur, phase, phase_time, total_time, step_count,
                   swing_log>>

\* set_velocity that lifts the feet again when a forward step is commanded
SetVelocity_LiftsWhenWalking(forward, turn) ==
    /\ params' = [params EXCEPT !.step_length = forward, !.turn_rate = turn,
                                !.step_height = IF forward # 0 THEN 20 ELSE @]
    /\ op' = "set_velocity"
    /\ arg_dt' = 0
    /\ ret' = "none"
    /\ joints' = ZeroPose
    /\ UNCHANGED <<double_dur, swing_dur, phase, phase_time, total_time, step_count,
                   swing_log>>

\* set_velocity(forward, turn)
SetVelocity(forward, turn) ==
    /\ params' = [params EXCEPT !.step_length = forward, !.turn_rate = turn]
    /\ op' = "set_velocity"
    /\ arg_dt' = 0
    /\ ret' = "none"
    /\ joints' = ZeroPose
    /\ UNCHANGED <<double_dur, swing_dur, phase, phase_time, total_time, step_count,
                   swing_log>>

\* stop() that also puts the machine back into DOUBLE_SUPPORT
Stop_Halts ==
    /\ params' = [params EXCEPT !.step_length = 0, !.turn_rate = 0, !.step_height = 0]
    /\ phase' = DOUBLE_SUPPORT
    /\ phase_time' = 0
    /\ op' = "stop"
    /\ arg_dt' = 0
    /\ ret' = "none"
    /\ joints' = ZeroPose
    /\ UNCHANGED <<double_dur, swing_dur, total_time, step_count, swing_log>>

\* stop()
Stop ==
    /\ params' = [params EXCEPT !.step_length = 0, !.turn_rate = 0, !.step_height = 0]
    /\ op' = "stop"
    /\ arg_dt' = 0
    /\ ret' = "none"
    /\ joints' = ZeroPose
    /\ UNCHANGED <<double_dur, swing_dur, phase, phase_time, total_time, step_count,
                   swing_log>>

\* reset() that keeps step_count
Reset_KeepsCount ==
    /\ phase' = DOUBLE_SUPPORT
    /\ phase_time' = 0
    /\ total_time' = 0
    /\ op' = "reset"
    /\ arg_dt' = 0
    /\ ret' = "none"
    /\ joints' = ZeroPose
    /\ UNCHANGED <<params, double_dur, swing_dur, step_count, swing_log>>

\* reset() that leaves the phase as it is
Reset_KeepsPhase ==
    /\ phase_time' = 0
    /\ total_time' = 0
    /\ step_count' = 0
    /\ op' = "reset"
    /\ arg_dt' = 0
    /\ ret' = "none"
    /\ joints' = ZeroPose
    /\ UNCHANGED <<params, double_dur, swing_dur, phase, swing_log>>

\* reset()
Reset ==
    /\ phase' = DOUBLE_SUPPORT
    /\ phase_time' = 0
    /\ total_time' = 0
    /\ step_count' = 0
    /\ op' = "reset"
    /\ arg_dt' = 0
    /\ ret' = "none"
    /\ joints' = ZeroPose
    /\ UNCHANGED <<params, double_dur, swing_dur, swing_log>>

\* the state machine of GaitGenerator(p) right after construction
Fresh(p) ==
    [phase |-> DOUBLE_SUPPORT, phase_time |-> 0, total_time |-> 0, step_count |-> 0,
     double_dur |-> DoubleDur(p), swing_dur |-> SwingDur(p)]

\* what update(dt) writes and returns when called in the state machine f with
\* the parameters p
UpdateOf(f, p, dt) ==
    LET t == CheckTransition(f.phase, f.phase_time + dt, f.step_count,
                             f.double_dur, f.swing_dur)
    IN  [phase |-> t.phase, phase_time |-> t.phase_time, step_count |-> t.step_count,
         total_time |-> f.total_time + dt,
         joints |-> IF t.phase # DOUBLE_SUPPORT /\ f.swing_dur = 0 THEN ZeroPose
                    ELSE ComputeJointAnglesDirect(t.phase, t.phase_time, t.step_count,
                                                  p, f.double_dur, f.swing_dur)]

----------------------------------------------------------------------------
\* PIDGains, PostureController, CenterOfMassController
\* Gains are carried in hundredths (kp 0.3 = 30); roll, pitch and their
\* errors in degrees, heights in millimetres, dt in 0.01 s; corrections in
\* millidegrees (posture) and micrometres (height).

PIDGains(kp, ki, kd) == [kp |-> kp, ki |-> ki, kd |-> kd]

integral_limit == 500       \* 5.0 degree seconds
com_integral_limit == 5000  \* 0.05 metre seconds
max_correction == 3000      \* 3.0 degrees
loop_correction == 2000     \* 2.0 degrees

\* PostureController(roll_gains, pitch_gains), targets 0
PostureController(roll_gains, pitch_gains) ==
    [roll_gains |-> roll_gains, pitch_gains |-> pitch_gains,
     target_roll |-> 0, target_pitch |-> 0,
     ri |-> 0, pi |-> 0, re |-> 0, pe |-> 0,
     integral_limit |-> integral_limit]

\* PostureController.reset
PostureReset(c) == [c EXCEPT !.ri = 0, !.pi = 0, !.re = 0, !.pe = 0]

\* the integral update with the clip left out
Integrate_Unclipped(i, e, dt, limit) == i + e * dt

\* np.clip(i + e * dt, -limit, limit)
Integrate(i, e, dt, limit) == Clip(i + e * dt, -limit, limit)

\* the derivative guarded by dt != 0 instead of dt > 0
DerivativeTerm_NegativeDt(kd, e, prev, dt) ==
    IF dt > 0 THEN Div(kd * 1000 * (e - prev), dt)
    ELSE IF dt < 0 THEN -Div(kd * 1000 * (e - prev), -dt)
    ELSE 0

\* (e - prev) / dt if dt > 0 else 0.0, times the gain kd, in thousandths
DerivativeTerm(kd, e, prev, dt) ==
    IF dt > 0 THEN Div(kd * 1000 * (e - prev), dt) ELSE 0

\* kp * e + ki * i + kd * d, in thousandths of the unit of e
PidOutput(g, e, i, prev, dt) ==
    g.kp * e * 10 + Div(g.ki * i, 10) + DerivativeTerm(g.kd, e, prev, dt)

\* PostureController.update with the roll derivative taken against the
\* previous pitch error
PostureUpdate_CrossDerivative(c, roll, pitch, dt) ==
    LET re == c.target_roll - roll
        pe == c.target_pitch - pitch
        ri == Integrate(c.ri, re, dt, c.integral_limit)
        pi == Integrate(c.pi, pe, dt, c.integral_limit)
    IN  [ctl |-> [c EXCEPT !.ri = ri, !.pi = pi, !.re = re, !.pe = pe],
         rc  |-> PidOutput(c.roll_gains, re, ri, c.pe, dt),
         pc  |-> PidOutput(c.pitch_gains, pe, pi, c.pe, dt)]

\* PostureController.update: the controller after the call and the returned
\* (rc, pc)
PostureUpdate(c, roll, pitch, dt) ==
    LET re == c.target_roll - roll
        pe == c.target_pitch - pitch
        ri == Integrate(c.ri, re, dt, c.integral_limit)
        pi == Integrate(c.pi, pe, dt, c.integral_limit)
    IN  [ctl |-> [c EXCEPT !.ri = ri, !.pi = pi, !.re = re, !.pe = pe],
         rc  |-> PidOutput(c.roll_gains, re, ri, c.re, dt),
         pc  |-> PidOutput(c.pitch_gains, pe, pi, c.pe, dt)]

CorrJoints == {"left_hip_roll", "right_hip_roll", "left_hip_pitch",
               "right_hip_pitch", "left_ankle_pitch", "right_ankle_pitch"}

\* compute_joint_corrections with the same sign on both hip_roll joints
ComputeJointCorrections_SameRoll(roll_corr, pitch_corr) ==
    [j \in CorrJoints |->
       CASE j = "left_hip_roll"     -> Div(roll_corr * 3, 10)
         [] j = "right_hip_roll"    -> Div(roll_corr * 3, 10)
         [] j = "left_hip_pitch"    -> Div(pitch_corr * 3, 10)
         [] j = "right_hip_pitch"   -> Div(pitch_corr * 3, 10)
         [] j = "left_ankle_pitch"  -> Div(pitch_corr * (-2), 10)
         [] j = "right_ankle_pitch" -> Div(pitch_corr * (-2), 10)]

\* PostureController.compute_joint_corrections
ComputeJointCorrections(roll_corr, pitch_corr) ==
    [j \in CorrJoints |->
       CASE j = "left_hip_roll"     -> Div(roll_corr * 3, 10)
         [] j = "right_hip_roll"    -> Div(roll_corr * (-3), 10)
         [] j = "left_hip_pitch"    -> Div(pitch_corr * 3, 10)
         [] j = "right_hip_pitch"   -> Div(pitch_corr * 3, 10)
         [] j = "left_ankle_pitch"  -> Div(pitch_corr * (-2), 10)
         [] j = "right_ankle_pitch" -> Div(pitch_corr * (-2), 10)]

\* CenterOfMassController(target_height = 0.24)
CenterOfMassController ==
    [target |-> 240, gains |-> PIDGains(800, 50, 100), i |-> 0, e |-> 0]

\* CenterOfMassController.reset zeroing the integral only
ComReset_KeepsError(c) == [c EXCEPT !.i = 0]

\* CenterOfMassController.reset
ComReset(c) == [c EXCEPT !.i = 0, !.e = 0]

\* CenterOfMassController.update: the controller after the call and the
\* returned height correction
ComUpdate(c, height, dt) ==
    LET e == c.target - height
        i == Integrate(c.i, e, dt, com_integral_limit)
    IN  [ctl |-> [c EXCEPT !.i = i, !.e = e],
         hc  |-> PidOutput(c.gains, e, i, c.e, dt)]

LegJoints == {"left_knee", "right_knee", "left_hip_pitch", "right_hip_pitch"}

\* CenterOfMassController.compute_leg_extension
ComputeLegExtension(h_corr) ==
    [j \in LegJoints |->
       IF j \in {"left_knee", "right_knee"}
       THEN Div(-h_corr * 3, 20)
       ELSE Div(h_corr * 3, 40)]

\* dict.get(j, 0.0)
Get(m, j) == IF j \in DOMAIN m THEN m[j] ELSE 0

\* the merge of compute_control with the bounds of np.clip swapped:
\* np.clip(delta, max_correction, -max_correction) is
\* minimum(maximum(delta, max_correction), -max_correction)
Merge_SwappedBounds(base, p_corr, h_corr) ==
    [j \in DOMAIN base |->
       LET delta == Get(p_corr, j) + Get(h_corr, j)
           lower == IF delta < max_correction THEN max_correction ELSE delta
       IN  base[j] + (IF lower > -max_correction THEN -max_correction ELSE lower)]

\* the merge of compute_control clipping the target instead of the delta
Merge_ClipsTarget(base, p_corr, h_corr) ==
    [j \in DOMAIN base |->
       Clip(base[j] + Get(p_corr, j) + Get(h_corr, j), -max_correction, max_correction)]

\* lines 166-170 of compute_control: base + clip(posture delta + height delta)
Merge(base, p_corr, h_corr) ==
    [j \in DOMAIN base |->
       base[j] + Clip(Get(p_corr, j) + Get(h_corr, j), -max_correction, max_correction)]

\* the loop's merge without the clip of the correction
Compose_Unclipped(gait_joints, corr) ==
    [j \in DOMAIN gait_joints |-> gait_joints[j] + Get(corr, j)]

\* step (c) of the locomotion loops: gait + clip(correction, -2, 2)
Compose(gait_joints, corr) ==
    [j \in DOMAIN gait_joints |->
       gait_joints[j] + Clip(Get(corr, j), -loop_correction, loop_correction)]

\* The measured states and the dt the controllers are called with
RollSet   == {0, 50}
PitchSet  == {-50, 0}
HeightSet == {240, 740}
CtlDtSet  == {-5, 0, 5}

\* The base poses passed to set_base_pose: the straight legs of
\* test_standing_control and a crouch of the knees
PoseSet == {ZeroPose,
            [j \in {"left_knee", "right_knee"} |-> 20000]}

NoReturn == [rc |-> 0, pc |-> 0, hc |-> 0, out |-> ZeroPose]

\* StandingController() and the loop's PostureController
CtlInit ==
    /\ sc_posture = PostureController(PIDGains(30, 1, 5), PIDGains(30, 1, 5))
    /\ sc_com = CenterOfMassController
    /\ base_pose = ZeroPose
    /\ sc_op = "init"
    /\ sc_dt = 0
    /\ sc_ret = NoReturn

\* dt = 0.01 of the locomotion loops
loop_dt == 1

\* sim_dt = 0.001 of the loops, in milliseconds
sim_dt == 1

\* steps_per_ctrl taken one short, as int() of a quotient just below 10 gives
steps_per_ctrl_Truncated == Div(loop_dt * 10, sim_dt) - 1

\* steps_per_ctrl = int(dt / sim_dt) with dt = 0.01, sim_dt = 0.001
steps_per_ctrl == Div(loop_dt * 10, sim_dt)

\* The loop after the warm-up passes (set_joint_positions, then
\* steps_per_ctrl sub-steps, no controller) and before its first read
WarmedUp(loop) ==
    [loop |-> loop, pc |-> "read", controls |-> 0, writes |-> 1,
     substeps |-> steps_per_ctrl]

LoopInit ==
    /\ posture_pid = PostureController(PIDGains(20, 1, 3), PIDGains(20, 1, 3))
    /\ meas = [roll |-> 0, pitch |-> 0]
    /\ pid_ret = [rc |-> 0, pc |-> 0]
    /\ pid_corr = ComputeJointCorrections(0, 0)
    /\ final = ZeroPose
    /\ lock = WarmedUp("stepping")
    /\ pair_fed = [roll |-> TRUE, pitch |-> TRUE]
    /\ other = <<>>

\* self.posture.update(roll, pitch, dt) called on the standing controller's
\* posture controller
PostureUpdateCall(roll, pitch, dt) ==
    \E r \in {PostureUpdate(sc_posture, roll, pitch, dt)} :
        /\ sc_posture' = r.ctl
        /\ sc_op' = "posture.update"
        /\ sc_dt' = dt
        /\ sc_ret' = [NoReturn EXCEPT !.rc = r.rc, !.pc = r.pc]
        /\ UNCHANGED <<sc_com, base_pose>>

\* self.com.update(height, dt)
ComUpdateCall(height, dt) ==
    \E r \in {ComUpdate(sc_com, height, dt)} :
        /\ sc_com' = r.ctl
        /\ sc_op' = "com.update"
        /\ sc_dt' = dt
        /\ sc_ret' = [NoReturn EXCEPT !.hc = r.hc]
        /\ UNCHANGED <<sc_posture, base_pose>>

\* StandingController.compute_control(height, roll, pitch, dt)
ComputeControl(height, roll, pitch, dt) ==
    \E p \in {PostureUpdate(sc_posture, roll, pitch, dt)},
       h \in {ComUpdate(sc_com, height, dt)} :
      \E p_corr \in {ComputeJointCorrections(p.rc, p.pc)},
         h_corr \in {ComputeLegExtension(h.hc)} :
        /\ sc_posture' = p.ctl
        /\ sc_com' = h.ctl
        /\ sc_op' = "compute_control"
        /\ sc_dt' = dt
        /\ sc_ret' = [rc |-> p.rc, pc |-> p.pc, hc |-> h.hc,
                      out |-> Merge(base_pose, p_corr, h_corr)]
        /\ UNCHANGED base_pose

\* StandingController.reset
StandingReset ==
    /\ sc_posture' = PostureReset(sc_posture)
    /\ sc_com' = ComReset(sc_com)
    /\ sc_op' = "reset"
    /\ sc_dt' = 0
    /\ sc_ret' = NoReturn
    /\ UNCHANGED base_pose

\* self.posture.reset() called on the standing controller's posture controller
PostureResetCall ==
    /\ sc_posture' = PostureReset(sc_posture)
    /\ sc_op' = "posture.reset"
    /\ sc_dt' = 0
    /\ sc_ret' = NoReturn
    /\ UNCHANGED <<sc_com, base_pose>>

\* self.com.reset()
ComResetCall ==
    /\ sc_com' = ComReset(sc_com)
    /\ sc_op' = "com.reset"
    /\ sc_dt' = 0
    /\ sc_ret' = NoReturn
    /\ UNCHANGED <<sc_posture, base_pose>>

\* StandingController.set_base_pose(pose)
SetBasePose(pose) ==
    /\ base_pose' = [j \in JointNames |-> IF j \in DOMAIN pose THEN pose[j] ELSE base_pose[j]]
    /\ sc_op' = "set_base_pose"
    /\ sc_dt' = 0
    /\ sc_ret' = NoReturn
    /\ UNCHANGED <<sc_posture, sc_com>>

----------------------------------------------------------------------------
\* LegGeometry, solve_leg_ik, compute_leg_joints
\* Lengths and targets are carried in micrometres, so that the margin 1e-6 m
\* of the reachability check is 1.  Squares of lengths are exact in two limbs
\* where they are compared, and in units of 1000 square micrometres where
\* they are divided.  Cosines are carried in millionths, angles in hundredths
\* of a degree.

\* LegGeometry(thigh_length, calf_length): a plain dataclass, no check
LegGeometry(thigh_length, calf_length) ==
    [thigh_length |-> thigh_length, calf_length |-> calf_length,
     hip_offset_y |-> 70000, hip_offset_z |-> 75000]

\* the value None
None == [none |-> TRUE]

\* geom = geom or LegGeometry()
GeomOrDefault(g) == IF g = None THEN LegGeometry(120000, 100000) ELSE g

\* the margin 1e-6 of lines 61-63
eps == 1

Limb == 1000000

\* v ** 2, exact, as hi * Limb + lo
Square(v) ==
    LET w == Abs(v)
        a == w \div 1000
        e == w % 1000
        m == 2 * a * e
        l == (m % 1000) * 1000 + e * e
    IN  [hi |-> a * a + m \div 1000 + l \div Limb, lo |-> l % Limb]

Plus(p, q) ==
    LET l == p.lo + q.lo
    IN  [hi |-> p.hi + q.hi + l \div Limb, lo |-> l % Limb]

Less(p, q) == p.hi < q.hi \/ (p.hi = q.hi /\ p.lo < q.lo)

\* the largest d in lo..hi with d ** 2 <= s
RECURSIVE Root(_, _, _)
Root(s, lo, hi) ==
    IF lo = hi
    THEN lo
    ELSE LET mid == (lo + hi + 1) \div 2
         IN  IF Less(s, Square(mid)) THEN Root(s, lo, mid - 1) ELSE Root(s, mid, hi)

\* d = np.sqrt(dx**2 + dz**2): the whole micrometres of d, and whether d is
\* a whole number of micrometres
Distance(dx, dz) ==
    LET s == Plus(Square(dx), Square(dz))
        r == Root(s, 0, Abs(dx) + Abs(dz))
    IN  [floor |-> r, exact |-> Square(r) = s]

\* the reachability check with the lower test on d < min_reach
Reach_NoMargin(d, L1, L2) ==
    LET max_reach == L1 + L2
        min_reach == Abs(L1 - L2)
        d1 == IF d.floor > max_reach \/ (d.floor = max_reach /\ ~d.exact)
              THEN max_reach - eps
              ELSE d.floor
    IN  IF d1 < min_reach THEN min_reach + eps ELSE d1

\* lines 57-63: the two clamps of d, one after the other
Reach(d, L1, L2) ==
    LET max_reach == L1 + L2
        min_reach == Abs(L1 - L2)
        d1 == IF d.floor > max_reach \/ (d.floor = max_reach /\ ~d.exact)
              THEN max_reach - eps
              ELSE d.floor
    IN  IF d1 < min_reach + eps THEN min_reach + eps ELSE d1

\* u * v in units of 1000 square micrometres
Prod(u, v) ==
    LET a == Abs(u)
        b == Abs(v)
        p == (a \div 1000) * b + ((a % 1000) * b) \div 1000
    IN  IF (u < 0) = (v < 0) THEN p ELSE -p

\* the first k decimals of r / den, 0 <= r < den
RECURSIVE Decimals(_, _, _, _)
Decimals(r, den, k, acc) ==
    IF k = 0
    THEN acc
    ELSE Decimals((r * 10) % den, den, k - 1, acc * 10 + (r * 10) \div den)

\* np.clip(num / den, -1.0, 1.0) in millionths; a division by zero of numpy
\* floats gives an infinity of the sign of num (0 / 0, not a number, does not
\* arise with the geometries of GeomSet)
ClipUnit(num, den) ==
    IF den = 0
    THEN IF num >= 0 THEN 1000000 ELSE -1000000
    ELSE LET n == IF den < 0 THEN -num ELSE num
             m == Abs(den)
         IN  IF n >= m THEN 1000000
             ELSE IF n <= -m THEN -1000000
             ELSE IF n >= 0 THEN Decimals(n, m, 6, 0)
             ELSE -Decimals(-n, m, 6, 0)

\* a * b for a, b in millionths, 0 <= a, b <= 10^6
MulUnit(a, b) == ((a \div 1000) * b) \div 1000 + ((a % 1000) * b) \div 1000000

\* n hundredths of a degree in millionths of a radian, 0 <= n <= 4500
Radians(n) == (n * 174533) \div 1000

\* 10^6 * sin x for x millionths of a radian, 0 <= x <= pi / 4:
\* x (1 - x^2/6 (1 - x^2/20 (1 - x^2/42)))
SinSeries(x) ==
    LET x2 == MulUnit(x, x)
        t3 == 1000000 - x2 \div 42
        t2 == 1000000 - MulUnit(x2, t3) \div 20
        t1 == 1000000 - MulUnit(x2, t2) \div 6
    IN  MulUnit(x, t1)

\* 10^6 * cos x for x millionths of a radian, 0 <= x <= pi / 4:
\* 1 - x^2/2 (1 - x^2/12 (1 - x^2/30 (1 - x^2/56)))
CosSeries(x) ==
    LET x2 == MulUnit(x, x)
        t4 == 1000000 - x2 \div 56
        t3 == 1000000 - MulUnit(x2, t4) \div 30
        t2 == 1000000 - MulUnit(x2, t3) \div 12
    IN  1000000 - MulUnit(x2, t2) \div 2

\* 10^6 * sin of n hundredths of a degree, 0 <= n <= 9000
SinQuadrant(n) ==
    IF n <= 4500 THEN SinSeries(Radians(n)) ELSE CosSeries(Radians(9000 - n))

\* np.sin and np.cos of n hundredths of a degree, any integer n, in
\* millionths
SinCenti(n) ==
    LET m == n % 36000
    IN  IF m <= 9000 THEN SinQuadrant(m)
        ELSE IF m <= 18000 THEN SinQuadrant(18000 - m)
        ELSE IF m <= 27000 THEN -SinQuadrant(m - 18000)
        ELSE -SinQuadrant(36000 - m)

CosCenti(n) == SinCenti(n + 9000)

\* the largest angle a in lo..hi with cos(a) >= c
RECURSIVE ArcCosIn(_, _, _)
ArcCosIn(c, lo, hi) ==
    IF lo = hi
    THEN lo
    ELSE LET mid == (lo + hi + 1) \div 2
         IN  IF CosCenti(mid) >= c THEN ArcCosIn(c, mid, hi) ELSE ArcCosIn(c, lo, mid - 1)

\* np.arccos(c), in hundredths of a degree, 0..18000
ArcCos(c) == ArcCosIn(c, 0, 18000)

\* the largest angle a in lo..hi, within 0..4500, with tan(a) <= t
RECURSIVE ArcTanIn(_, _, _)
ArcTanIn(t, lo, hi) ==
    IF lo = hi
    THEN lo
    ELSE LET mid == (lo + hi + 1) \div 2
         IN  IF ClipUnit(SinCenti(mid), CosCenti(mid)) <= t
             THEN ArcTanIn(t, mid, hi)
             ELSE ArcTanIn(t, lo, mid - 1)

\* np.arctan2(y, x) in hundredths of a degree, -18000..18000.  The solver
\* passes y = -dx, which is the negative zero for dx = 0.0: arctan2(-0.0, x)
\* is -180 degrees for x <= 0 and 0 for x > 0.
ArcTan2(y, x) ==
    LET ay == Abs(y)
        ax == Abs(x)
        base == IF ay <= ax
                THEN ArcTanIn(ClipUnit(ay, ax), 0, 4500)
                ELSE 9000 - ArcTanIn(ClipUnit(ax, ay), 0, 4500)
    IN  IF y = 0 THEN (IF x <= 0 THEN -18000 ELSE 0)
        ELSE IF x = 0 THEN (IF y > 0 THEN 9000 ELSE -9000)
        ELSE IF x > 0 THEN (IF y > 0 THEN base ELSE -base)
        ELSE IF y > 0 THEN 18000 - base ELSE base - 18000

\* lines 65-84 of solve_leg_ik with the elbow of the leg on the other side:
\* hip_pitch = alpha + beta
IkAngles_BetaAdded(dx, dz, d, L1, L2) ==
    LET cos_knee    == ClipUnit(Prod(L1, L1) + Prod(L2, L2) - Prod(d, d), 2 * Prod(L1, L2))
        knee_angle  == 18000 - ArcCos(cos_knee)
        alpha       == ArcTan2(-dx, -dz)
        cos_beta    == ClipUnit(Prod(L1, L1) + Prod(d, d) - Prod(L2, L2), 2 * Prod(L1, d))
        beta        == ArcCos(cos_beta)
        hip_pitch   == alpha + beta
        ankle_pitch == -(hip_pitch + knee_angle)
    IN  [hip_pitch |-> hip_pitch * 10, knee |-> knee_angle * 10,
         ankle_pitch |-> ankle_pitch * 10]

\* lines 65-84 of solve_leg_ik: the angles for the distance d, in millidegrees
IkAngles(dx, dz, d, L1, L2) ==
    LET cos_knee    == ClipUnit(Prod(L1, L1) + Prod(L2, L2) - Prod(d, d), 2 * Prod(L1, L2))
        knee_angle  == 18000 - ArcCos(cos_knee)
        alpha       == ArcTan2(-dx, -dz)
        cos_beta    == ClipUnit(Prod(L1, L1) + Prod(d, d) - Prod(L2, L2), 2 * Prod(L1, d))
        beta        == ArcCos(cos_beta)
        hip_pitch   == alpha - beta
        ankle_pitch == -(hip_pitch + knee_angle)
    IN  [hip_pitch |-> hip_pitch * 10, knee |-> knee_angle * 10,
         ankle_pitch |-> ankle_pitch * 10]

\* solve_leg_ik returning None for a target out of reach
SolveLegIk_RejectsUnreachable(target_x, target_z, g) ==
    LET L1 == GeomOrDefault(g).thigh_length
        L2 == GeomOrDefault(g).calf_length
        d0 == Distance(target_x, target_z)
        d  == Reach(d0, L1, L2)
    IN  [d |-> d,
         value |-> IF d # d0.floor THEN None ELSE IkAngles(target_x, target_z, d, L1, L2)]

\* solve_leg_ik(target_x, target_z, geom): the returned dictionary, with the
\* distance d it was computed for
SolveLegIk(target_x, target_z, g) ==
    LET L1 == GeomOrDefault(g).thigh_length
        L2 == GeomOrDefault(g).calf_length
        d  == Reach(Distance(target_x, target_z), L1, L2)
    IN  [d |-> d, value |-> IkAngles(target_x, target_z, d, L1, L2)]

Sides == {"left", "right"}

\* compute_leg_joints(foot_x, foot_z, foot_roll, side, geom)
ComputeLegJoints(foot_x, foot_z, foot_roll, side, g) ==
    LET s  == SolveLegIk(foot_x, foot_z, g)
        ik == s.value
    IN  [d |-> s.d,
         value |-> IF ik = None
                   THEN None
                   ELSE [j \in {side \o "_hip_roll", side \o "_hip_pitch",
                                side \o "_knee", side \o "_ankle_pitch"} |->
                           CASE j = side \o "_hip_roll"    -> foot_roll
                             [] j = side \o "_hip_pitch"   -> ik.hip_pitch
                             [] j = side \o "_knee"        -> ik.knee
                             [] j = side \o "_ankle_pitch" -> ik.ankle_pitch]]

\* The geometries constructed: the default one, equal segments, a zero
\* thigh, a zero calf, a negative thigh; None is the argument left out
GeomSet == {LegGeometry(120000, 100000), LegGeometry(100000, 100000),
            LegGeometry(0, 100000), LegGeometry(120000, 0),
            LegGeometry(-120000, 100000), None}

\* The foot targets (x, z): the hip point, targets at, just inside and just
\* outside the two reach limits of the default geometry, inside the reach,
\* far outside, above the hip, behind the hip, and behind and above it
TargetSet == {<<0, 0>>, <<0, -220000>>, <<0, -220001>>, <<0, -219999>>,
              <<0, -20000>>, <<0, -20001>>, <<0, -19999>>,
              <<60000, -80000>>, <<132000, -176000>>, <<50000, -150000>>,
              <<300000, -400000>>, <<0, 100000>>,
              <<-60000, -80000>>, <<-100000, 50000>>}

RollArgs == {0, 5000}

NoArg == [x |-> 0, z |-> 0, foot_roll |-> 0, side |-> "left"]
NoIk  == [d |-> 0, value |-> None]

\* the module's state before a call: the geometry of GaitGenerator.__init__
IkInit ==
    /\ geom = LegGeometry(120000, 100000)
    /\ ik_op = "init"
    /\ ik_arg = NoArg
    /\ ik_ret = NoIk

\* solve_leg_ik(target_x, target_z, geom)
SolveLegIkCall(target_x, target_z) ==
    /\ ik_op' = "solve_leg_ik"
    /\ ik_arg' = [x |-> target_x, z |-> target_z, foot_roll |-> 0, side |-> "left"]
    /\ ik_ret' = SolveLegIk(target_x, target_z, geom)
    /\ UNCHANGED geom

\* compute_leg_joints(foot_x, foot_z, foot_roll, side, geom)
ComputeLegJointsCall(foot_x, foot_z, foot_roll, side) ==
    /\ ik_op' = "compute_leg_joints"
    /\ ik_arg' = [x |-> foot_x, z |-> foot_z, foot_roll |-> foot_roll, side |-> side]
    /\ ik_ret' = ComputeLegJoints(foot_x, foot_z, foot_roll, side, geom)
    /\ UNCHANGED geom

----------------------------------------------------------------------------
\* Specifications

Init == GaitInit(Configs) /\ CtlInit /\ LoopInit /\ IkInit

\* the calls made on the generator
GaitUpdate == \E dt \in DtSet : Update(dt) /\ UNCHANGED <<ctlVars, loopVars, ikVars>>
GaitSetVelocity ==
    \E f \in ForwardSet, t \in TurnSet : SetVelocity(f, t) /\ UNCHANGED <<ctlVars, loopVars, ikVars>>
GaitStop == Stop /\ UNCHANGED <<ctlVars, loopVars, ikVars>>
GaitReset == Reset /\ UNCHANGED <<ctlVars, loopVars, ikVars>>

Next ==
    \/ GaitUpdate
    \/ GaitSetVelocity
    \/ GaitStop
    \/ GaitReset

\* A generator driven by update, set_velocity, stop and reset
Spec == Init /\ [][Next]_vars

\* the calls made on the standing controller and its two sub-controllers
CtlPostureUpdate ==
    \E r \in RollSet, p \in PitchSet, dt \in CtlDtSet :
        PostureUpdateCall(r, p, dt) /\ UNCHANGED <<gaitVars, loopVars, ikVars>>
CtlComUpdate ==
    \E h \in HeightSet, dt \in CtlDtSet :
        ComUpdateCall(h, dt) /\ UNCHANGED <<gaitVars, loopVars, ikVars>>
CtlComputeControl ==
    \E h \in HeightSet, r \in RollSet, p \in PitchSet, dt \in CtlDtSet :
        ComputeControl(h, r, p, dt) /\ UNCHANGED <<gaitVars, loopVars, ikVars>>
CtlReset == StandingReset /\ UNCHANGED <<gaitVars, loopVars, ikVars>>
CtlSetBasePose == \E pose \in PoseSet : SetBasePose(pose) /\ UNCHANGED <<gaitVars, loopVars, ikVars>>

NextCtl ==
    \/ CtlPostureUpdate
    \/ CtlComUpdate
    \/ CtlComputeControl
    \/ CtlReset
    \/ CtlSetBasePose

\* A standing controller driven by compute_control, by direct calls of its
\* sub-controllers, reset and set_base_pose; the generator is the default one
InitCtl == GaitInit({<<20, 3>>}) /\ CtlInit /\ LoopInit /\ IkInit

SpecCtl == InitCtl /\ [][NextCtl]_vars

\* the generator driven forward in time only, without reset
GaitUpdateForward ==
    \E dt \in {d \in DtSet : d >= 0} : Update(dt) /\ UNCHANGED <<ctlVars, loopVars, ikVars>>

NextForward ==
    \/ GaitUpdateForward
    \/ GaitSetVelocity
    \/ GaitStop

\* A generator constructed once and driven by update(dt >= 0), set_velocity
\* and stop
SpecForward == Init /\ [][NextForward]_vars

GaitUpdateNonNegative ==
    \E dt \in {d \in DtSet : d >= 0} : Update(dt) /\ UNCHANGED <<ctlVars, loopVars, ikVars>>

NextNonNegative ==
    \/ GaitUpdateNonNegative
    \/ GaitSetVelocity
    \/ GaitStop
    \/ GaitReset

\* The configurations with swing_dur > 0, with which no update raises
ReturningConfigs == {c \in Configs : c[1] * (10 - c[2]) > 0}

InitNonNegative == GaitInit(ReturningConfigs) /\ CtlInit /\ LoopInit /\ IkInit

\* A generator whose update always returns, driven by update(dt >= 0),
\* set_velocity, stop and reset
SpecNonNegative == InitNonNegative /\ [][NextNonNegative]_vars

\* The configurations with two positive phase durations
PositiveConfigs == {c \in Configs : c[1] > 0 /\ c[2] > 0 /\ c[2] < 10}

GaitUpdatePositive ==
    \E dt \in {d \in DtSet : d > 0} : Update(dt) /\ UNCHANGED <<ctlVars, loopVars, ikVars>>

\* The commands of test_turning: set_velocity(0.10, 0.0), set_velocity(0.0, 15.0)
LoopCommands == {<<100, 0>>, <<0, 15>>}

LoopSetVelocity ==
    \E c \in LoopCommands : SetVelocity(c[1], c[2]) /\ UNCHANGED <<ctlVars, loopVars, ikVars>>

InitLive == GaitInit(PositiveConfigs) /\ CtlInit /\ LoopInit /\ IkInit

NextLive ==
    \/ GaitUpdatePositive
    \/ LoopSetVelocity
    \/ GaitStop

\* A generator with positive phase durations inside a control loop: the loop
\* calls update(dt > 0) on every tick, so update is never postponed for ever;
\* set_velocity and stop arrive at any moment
SpecLive == InitLive /\ [][NextLive]_vars /\ WF_vars(GaitUpdatePositive)

\* The measured states the environment returns to the loop
LoopRollSet  == {0, 125}
LoopPitchSet == {0, 125}

\* The generator of the loop: a short period, positive durations
LoopConfigs == {<<1, 5>>}

\* One pass of the loop body: read the measured state, gait.update(dt),
\* posture_pid.update(roll, pitch, dt), compute_joint_corrections, merge,
\* send.  An exception of gait.update ends the pass before the PID is run.
LoopTick(roll, pitch) ==
    /\ Update(loop_dt)
    /\ meas' = [roll |-> roll, pitch |-> pitch]
    /\ IF ret' = "joints"
       THEN \E r \in {PostureUpdate(posture_pid, roll, pitch, loop_dt)} :
              /\ posture_pid' = r.ctl
              /\ pid_ret' = [rc |-> r.rc, pc |-> r.pc]
              /\ pid_corr' = ComputeJointCorrections(r.rc, r.pc)
              /\ final' = Compose(joints', pid_corr')
       ELSE UNCHANGED <<posture_pid, pid_ret, pid_corr, final>>
    /\ UNCHANGED <<pair_fed, other, ctlVars, ikVars>>

LoopStep == \E r \in LoopRollSet, p \in LoopPitchSet : LoopTick(r, p) /\ UNCHANGED lock

InitLoop == GaitInit(LoopConfigs) /\ CtlInit /\ LoopInit /\ IkInit

NextLoop ==
    \/ LoopStep
    \/ LoopSetVelocity
    \/ GaitStop

\* The locomotion loop of test_stepping, test_walking and test_turning, with
\* the velocity and stop commands of test_turning given between ticks
SpecLoop == InitLoop /\ [][NextLoop]_vars

\* The ticks of a control loop: 0.01 s as in the tests, 0.45 s, which
\* divides neither phase duration of the default configuration, and 2.4 s,
\* longer than a whole step
TickSet == {1, 45, 240}

\* update(dt) with the dt of the loop, the same on every tick
GaitTick ==
    \E dt \in TickSet :
        /\ op = "update" => dt = arg_dt
        /\ Update(dt)
        /\ UNCHANGED <<ctlVars, loopVars, ikVars>>

InitTick == GaitInit(PositiveConfigs) /\ CtlInit /\ LoopInit /\ IkInit

NextTick == GaitTick

\* A generator with 0 < double_support_ratio < 1 driven by update(dt) alone,
\* with a fixed tick dt > 0
SpecTick == InitTick /\ [][NextTick]_vars

\* a velocity command of test_turning, given once before the loop starts
GaitCommandFirst == op = "init" /\ LoopSetVelocity

NextWalkTick ==
    \/ GaitCommandFirst
    \/ GaitTick

\* A generator with 0 < double_support_ratio < 1 that is given a velocity
\* command and then driven by update(dt) with a fixed tick dt > 0
SpecWalkTick == InitTick /\ [][NextWalkTick]_vars

\* the stop command arrives within the first 1.2 s
LastStopTime == 120

GaitStopEarly ==
    /\ total_time <= LastStopTime
    /\ Stop
    /\ UNCHANGED <<ctlVars, loopVars, ikVars>>

NextStop ==
    \/ GaitUpdatePositive
    \/ LoopSetVelocity
    \/ GaitStopEarly

\* A walking generator that is stopped within LastStopTime and updated further
SpecStop == InitLive /\ [][NextStop]_vars

CtlPostureReset == PostureResetCall /\ UNCHANGED <<gaitVars, loopVars, ikVars>>
CtlComReset == ComResetCall /\ UNCHANGED <<gaitVars, loopVars, ikVars>>

NextReset ==
    \/ CtlComputeControl
    \/ CtlPostureUpdate
    \/ CtlComUpdate
    \/ CtlReset
    \/ CtlPostureReset
    \/ CtlComReset
    \/ CtlSetBasePose

\* A standing controller whose caller also resets the two sub-controllers
\* one by one
SpecReset == InitCtl /\ [][NextReset]_vars

\* The measured states the environment returns in the loops run statement by
\* statement
LockHeightSet == {240, 740}
LockRollSet   == {0, 125}
LockPitchSet  == {0}

\* base = env.get_base_state(); h, roll, pitch = ...: the first statement
\* of a pass
LockRead(height, roll, pitch) ==
    /\ lock.pc = "read"
    /\ meas' = IF lock.loop = "standing"
               THEN [height |-> height, roll |-> roll, pitch |-> pitch]
               ELSE [roll |-> roll, pitch |-> pitch]
    /\ lock' = [lock EXCEPT !.pc = "control", !.controls = 0, !.writes = 0,
                            !.substeps = 0]
    /\ UNCHANGED <<posture_pid, pid_ret, pid_corr, final, pair_fed, other,
                   gaitVars, ctlVars, ikVars>>

\* steps (a)-(c) of the locomotion loops on the state read
LockControlStepping ==
    /\ lock.pc = "control"
    /\ lock.loop = "stepping"
    /\ LoopTick(meas.roll, meas.pitch)
    /\ lock' = [lock EXCEPT !.pc = "send", !.controls = @ + 1]

\* targets = controller.compute_control(h, roll, pitch, dt) of the
\* standing loop
LockControlStanding ==
    /\ lock.pc = "control"
    /\ lock.loop = "standing"
    /\ ComputeControl(meas.height, meas.roll, meas.pitch, loop_dt)
    /\ final' = sc_ret'.out
    /\ lock' = [lock EXCEPT !.pc = "send", !.controls = @ + 1]
    /\ UNCHANGED <<posture_pid, meas, pid_ret, pid_corr, pair_fed, other, gaitVars,
                   ikVars>>

\* env.set_joint_positions(final)
LockSend ==
    /\ lock.pc = "send"
    /\ lock' = [lock EXCEPT !.pc = "physics", !.writes = @ + 1]
    /\ UNCHANGED <<posture_pid, meas, pid_ret, pid_corr, final, pair_fed, other,
                   gaitVars, ctlVars, ikVars>>

\* for _ in range(steps_per_ctrl): env.step(), one sub-step; after the last
\* one sim_time is advanced and the pass is over
LockPhysics ==
    /\ lock.pc = "physics"
    /\ lock' = [lock EXCEPT !.substeps = @ + 1,
                            !.pc = IF lock.substeps + 1 >= steps_per_ctrl
                                   THEN "read" ELSE "physics"]
    /\ UNCHANGED <<posture_pid, meas, pid_ret, pid_corr, final, pair_fed, other,
                   gaitVars, ctlVars, ikVars>>

LockReadStep ==
    \E h \in LockHeightSet, r \in LockRollSet, p \in LockPitchSet : LockRead(h, r, p)

InitLock ==
    /\ GaitInit(LoopConfigs) /\ CtlInit /\ IkInit
    /\ posture_pid = PostureController(PIDGains(20, 1, 3), PIDGains(20, 1, 3))
    /\ meas = [roll |-> 0, pitch |-> 0]
    /\ pid_ret = [rc |-> 0, pc |-> 0]
    /\ pid_corr = ComputeJointCorrections(0, 0)
    /\ final = ZeroPose
    /\ \E loop \in {"standing", "stepping"} : lock = WarmedUp(loop)
    /\ pair_fed = [roll |-> TRUE, pitch |-> TRUE]
    /\ other = <<>>

NextLock ==
    \/ LockReadStep
    \/ LockControlStepping
    \/ LockControlStanding
    \/ LockSend
    \/ LockPhysics

\* The control loops of test_standing_control and of test_stepping,
\* test_walking and test_turning, one statement at a time
SpecLock == InitLock /\ [][NextLock]_vars

\* gait.params.step_period = T; gait.params.double_support_ratio = r: the
\* caller writes the fields of the generator's GaitParams, as test_turning
\* writes gait.params.step_height.  Nothing else of the generator is touched.
Retune(T, r) ==
    /\ params' = [params EXCEPT !.step_period = T, !.double_support_ratio = r]
    /\ op' = "retune"
    /\ ret' = "none"
    /\ joints' = ZeroPose
    /\ UNCHANGED <<double_dur, swing_dur, phase, phase_time, total_time,
                   step_count, arg_dt, swing_log>>

GaitRetune ==
    \E c \in PositiveConfigs : Retune(c[1], c[2]) /\ UNCHANGED <<ctlVars, loopVars, ikVars>>

NextRetune ==
    \/ GaitUpdatePositive
    \/ GaitRetune

\* A generator in a control loop whose caller changes step_period and
\* double_support_ratio between ticks
SpecRetune == InitLive /\ [][NextRetune]_vars

\* A generator in a control loop whose caller changes step_period and
\* double_support_ratio between ticks and calls reset() at any moment
NextRetuneReset ==
    \/ GaitUpdatePositive
    \/ GaitRetune
    \/ GaitReset

SpecRetuneReset == InitLive /\ [][NextRetuneReset]_vars

\* Two generators and the GaitParams objects they refer to, as
\*     p = GaitParams(...); g = GaitGenerator(p)
\*     h = GaitGenerator(p)      or      h = GaitGenerator(GaitParams(...))
\* __init__ stores the reference it is given (self.params = params or
\* GaitParams(); a GaitParams instance is truthy), so g.params is the object p
\* and h.params is p or the object q constructed for it.  The variables of the
\* generator describe g, with params the content of p; other holds the
\* content of both objects (heap), the object h.params refers to (ref), the
\* state machine of h (gen), what the last call on h returned, and which of the
\* two generators was called last.
SharedConfigs == {<<8, 5>>}
SharedDtSet == {20}
SharedCommands == {<<100, 0>>}

\* the GaitParams h sees
Seen(o) == o.heap[o.ref]

\* h = GaitGenerator(p) with ref = "p", h = GaitGenerator(GaitParams(T, r))
\* with ref = "q"
ConstructOther(ref) ==
    /\ other = <<>>
    /\ \E heap \in {[p |-> params,
                      q |-> GaitParams(params.step_period, params.double_support_ratio)]} :
          other' = [heap |-> heap, ref |-> ref, gen |-> Fresh(heap[ref]),
                    op |-> "init", ret |-> "none", joints |-> ZeroPose, called |-> "h"]
    /\ UNCHANGED <<gaitVars, posture_pid, meas, pid_ret, pid_corr, final, lock, pair_fed,
                   ctlVars, ikVars>>

\* a call on g: what it writes to self.params is written to the object p
OnFirst(call) ==
    /\ other # <<>>
    /\ call
    /\ other' = [other EXCEPT !.heap.p = params', !.called = "g"]
    /\ UNCHANGED <<posture_pid, meas, pid_ret, pid_corr, final, lock, pair_fed,
                   ctlVars, ikVars>>

\* a call on h that writes the parameters np to self.params: g sees the
\* object p
OtherWrites(name, np) ==
    /\ other # <<>>
    /\ other' = [other EXCEPT !.heap[other.ref] = np, !.op = name, !.ret = "none",
                              !.joints = ZeroPose, !.called = "h"]
    /\ params' = other'.heap.p
    /\ UNCHANGED <<double_dur, swing_dur, phase, phase_time, total_time, step_count, op,
                   arg_dt, ret, joints, swing_log>>
    /\ UNCHANGED <<posture_pid, meas, pid_ret, pid_corr, final, lock, pair_fed,
                   ctlVars, ikVars>>

\* h.set_velocity(forward, turn)
OtherSetVelocity(forward, turn) ==
    /\ other # <<>>
    /\ OtherWrites("set_velocity",
                   [Seen(other) EXCEPT !.step_length = forward, !.turn_rate = turn])

\* h.stop()
OtherStop ==
    /\ other # <<>>
    /\ OtherWrites("stop", [Seen(other) EXCEPT !.step_length = 0, !.turn_rate = 0,
                                               !.step_height = 0])

\* h.update(dt)
OtherUpdate(dt) ==
    /\ other # <<>>
    /\ other.gen.step_count < MaxSteps
    /\ other.gen.total_time + dt <= MaxSteps * MaxStepTime
    /\ \E u \in {UpdateOf(other.gen, Seen(other), dt)} :
          other' = [other EXCEPT !.gen.phase = u.phase,
                                 !.gen.phase_time = u.phase_time,
                                 !.gen.step_count = u.step_count,
                                 !.gen.total_time = u.total_time,
                                 !.op = "update", !.ret = "joints",
                                 !.joints = u.joints, !.called = "h"]
    /\ UNCHANGED <<gaitVars, posture_pid, meas, pid_ret, pid_corr, final, lock, pair_fed,
                   ctlVars, ikVars>>

InitShared == GaitInit(SharedConfigs) /\ CtlInit /\ LoopInit /\ IkInit

NextShared ==
    \/ \E ref \in {"p", "q"} : ConstructOther(ref)
    \/ \E dt \in SharedDtSet : OnFirst(Update(dt))
    \/ \E c \in SharedCommands : OnFirst(SetVelocity(c[1], c[2]))
    \/ OnFirst(Stop)
    \/ \E dt \in SharedDtSet : OtherUpdate(dt)
    \/ \E c \in SharedCommands : OtherSetVelocity(c[1], c[2])
    \/ OtherStop

\* Two generators, the second one constructed from the GaitParams object of
\* the first or from one of its own, each driven by update, set_velocity and
\* stop
SpecShared == InitShared /\ [][NextShared]_vars

\* Two PostureControllers with the same gains, targets and limit run side by
\* side: every step calls update on both with the same dt; the rolls and the
\* pitches passed to the two may differ
PairDtSet == {0, 5}

PairInit ==
    /\ posture_pid = PostureController(PIDGains(30, 1, 5), PIDGains(30, 1, 5))
    /\ meas = [roll |-> 0, pitch |-> 0]
    /\ pid_ret = [rc |-> 0, pc |-> 0]
    /\ pid_corr = ComputeJointCorrections(0, 0)
    /\ final = ZeroPose
    /\ lock = WarmedUp("stepping")
    /\ pair_fed = [roll |-> TRUE, pitch |-> TRUE]
    /\ other = <<>>

PairUpdate(roll_a, pitch_a, roll_b, pitch_b, dt) ==
    \E a \in {PostureUpdate(sc_posture, roll_a, pitch_a, dt)},
       b \in {PostureUpdate(posture_pid, roll_b, pitch_b, dt)} :
        /\ sc_posture' = a.ctl
        /\ sc_op' = "posture.update"
        /\ sc_dt' = dt
        /\ sc_ret' = [NoReturn EXCEPT !.rc = a.rc, !.pc = a.pc]
        /\ posture_pid' = b.ctl
        /\ meas' = [roll |-> roll_b, pitch |-> pitch_b]
        /\ pid_ret' = [rc |-> b.rc, pc |-> b.pc]
        /\ pair_fed' = [roll  |-> pair_fed.roll /\ roll_a = roll_b,
                        pitch |-> pair_fed.pitch /\ pitch_a = pitch_b]
        /\ UNCHANGED <<sc_com, base_pose, pid_corr, final, lock, other, gaitVars, ikVars>>

PairStep ==
    \E ra \in RollSet, rb \in RollSet, pa \in PitchSet, pb \in PitchSet,
       dt \in PairDtSet :
        PairUpdate(ra, pa, rb, pb, dt)

InitPair == GaitInit(LoopConfigs) /\ CtlInit /\ PairInit /\ IkInit

NextPair == PairStep

SpecPair == InitPair /\ [][NextPair]_vars

\* the calls of the solver
IkSolve ==
    \E t \in TargetSet :
        SolveLegIkCall(t[1], t[2]) /\ UNCHANGED <<gaitVars, ctlVars, loopVars>>
IkComputeLegJoints ==
    \E t \in TargetSet, r \in RollArgs, s \in Sides :
        ComputeLegJointsCall(t[1], t[2], r, s) /\ UNCHANGED <<gaitVars, ctlVars, loopVars>>

InitIK ==
    /\ GaitInit({<<20, 3>>}) /\ CtlInit /\ LoopInit
    /\ geom \in GeomSet
    /\ ik_op = "init"
    /\ ik_arg = NoArg
    /\ ik_ret = NoIk

NextIK ==
    \/ IkSolve
    \/ IkComputeLegJoints

\* A LegGeometry constructed with any segment lengths (or left out) and
\* passed to solve_leg_ik and compute_leg_joints with any target
SpecIK == InitIK /\ [][NextIK]_vars


----------------------------------------------------------------------------
\* Properties of the gait state machine

SwingPhases == {LEFT_SWING, RIGHT_SWING}

\* The swing side the parity of step_count selects
NextSwing(sc) == IF sc % 2 = 0 THEN LEFT_SWING ELSE RIGHT_SWING

\* the command is held at zero: stop() was called and neither step_height,
\* step_length nor turn_rate was changed since
Stopped ==
    /\ params.step_height = 0
    /\ params.step_length = 0
    /\ params.turn_rate = 0

\* C1: an update in DOUBLE_SUPPORT whose advanced phase_time reaches
\* double_dur enters LEFT_SWING on an even and RIGHT_SWING on an odd
\* step_count, with phase_time 0 and step_count unchanged; otherwise the phase
\* stays DOUBLE_SUPPORT; nothing else leaves DOUBLE_SUPPORT.
C1_DoubleSupportTransition ==
    [][ /\ (op' = "update" /\ phase = DOUBLE_SUPPORT) =>
            IF phase_time + arg_dt' >= double_dur
            THEN /\ phase' = NextSwing(step_count)
                 /\ phase_time' = 0
                 /\ step_count' = step_count
            ELSE /\ phase' = DOUBLE_SUPPORT
                 /\ phase_time' = phase_time + arg_dt'
        /\ (phase = DOUBLE_SUPPORT /\ phase' # DOUBLE_SUPPORT) =>
            /\ op' = "update"
            /\ phase_time + arg_dt' >= double_dur ]_vars

\* C1 witness: an update has just taken the machine from DOUBLE_SUPPORT with
\* step_count 1 into RIGHT_SWING
C1_Witness ==
    /\ op = "update"
    /\ phase = RIGHT_SWING
    /\ phase_time = 0
    /\ step_count = 1

\* C2: an update in a swing phase whose advanced phase_time reaches swing_dur
\* enters DOUBLE_SUPPORT with phase_time 0 and step_count + 1; otherwise phase
\* and step_count are unchanged; step_count grows only there and only by 1,
\* and no step leads from one swing phase to the other.
C2_SwingTransition ==
    [][ /\ (op' = "update" /\ phase \in SwingPhases) =>
            IF phase_time + arg_dt' >= swing_dur
            THEN /\ phase' = DOUBLE_SUPPORT
                 /\ phase_time' = 0
                 /\ step_count' = step_count + 1
            ELSE /\ phase' = phase
                 /\ step_count' = step_count
        /\ step_count' > step_count =>
            /\ step_count' = step_count + 1
            /\ op' = "update"
            /\ phase \in SwingPhases
            /\ phase' = DOUBLE_SUPPORT
        /\ ~(phase \in SwingPhases /\ phase' \in SwingPhases /\ phase' # phase) ]_vars

\* C2 witness: the second swing phase has just been completed
C2_Witness ==
    /\ op = "update"
    /\ phase = DOUBLE_SUPPORT
    /\ phase_time = 0
    /\ step_count = 2

\* C8: stop() zeroes step_height, step_length and turn_rate and leaves the
\* phase, the timers, step_count, the other parameters and the durations alone.
C8_StopFrame ==
    [][ op' = "stop" =>
          /\ params' = [params EXCEPT !.step_height = 0, !.step_length = 0,
                                      !.turn_rate = 0]
          /\ UNCHANGED <<phase, phase_time, total_time, step_count,
                         double_dur, swing_dur>> ]_vars

\* C8 witness: stop() was called in the middle of a swing phase of a
\* generator that was walking and turning
C8_Witness ==
    /\ op = "stop"
    /\ phase \in SwingPhases
    /\ phase_time > 0
    /\ phase_time < swing_dur
    /\ Stopped

\* C10: while the command is held at zero after stop(), every joint map
\* update returns has zero knee, hip_pitch and ankle_pitch targets.
C10_StoppedNoLift ==
    (op = "update" /\ ret = "joints" /\ Stopped) =>
        \A j \in {"left_knee", "right_knee", "left_hip_pitch", "right_hip_pitch",
                  "left_ankle_pitch", "right_ankle_pitch"} : joints[j] = 0

\* C10 witness: an update returned in the middle of a swing phase with the
\* command held at zero
C10_Witness ==
    /\ op = "update"
    /\ ret = "joints"
    /\ Stopped
    /\ phase \in SwingPhases
    /\ phase_time > 0
    /\ phase_time < swing_dur

\* C3: consecutive swing phases alternate, starting with LEFT_SWING, with
\* set_velocity and stop interleaved anywhere.
C3_SwingsAlternate ==
    /\ [](\A i \in 1..(Len(swing_log) - 1) : swing_log[i] # swing_log[i + 1])
    /\ [][(swing_log = <<>> /\ swing_log' # <<>>) => swing_log' = <<LEFT_SWING>>]_vars

\* C3 witness: two swing phases were entered and stop() was called on the way
C3_Witness ==
    /\ Len(swing_log) = 2
    /\ phase = swing_log[2]
    /\ params.step_height = 0

\* The duration of the active phase
PhaseDuration == IF phase = DOUBLE_SUPPORT THEN double_dur ELSE swing_dur

PhaseTimeInRange ==
    /\ phase \in GaitPhase
    /\ 0 <= phase_time
    /\ phase_time < PhaseDuration

\* C4 as stated: when update is only called with dt >= 0, then after every
\* update that returned, for every configured step_period and
\* double_support_ratio, one phase is active and
\* 0 <= phase_time < duration of the active phase.
C4_Original ==
    (op = "update" /\ ret = "joints") => PhaseTimeInRange

\* C4: when update is only called with dt >= 0, then after every update of a
\* generator whose two phase durations are positive, one phase is active and
\* 0 <= phase_time < duration of the active phase.
C4_PhaseTimeInRange ==
    (op = "update" /\ double_dur > 0 /\ swing_dur > 0) => PhaseTimeInRange

\* C4 witness: an update whose dt equals the duration exactly has just ended
\* a swing phase of a generator with positive durations
C4_Witness ==
    /\ op = "update"
    /\ double_dur > 0
    /\ swing_dur = arg_dt
    /\ phase = DOUBLE_SUPPORT
    /\ phase_time = 0
    /\ step_count = 1

\* C9: with positive durations and update(dt > 0) called again and again,
\* every phase is left again and step_count reaches every bound, whatever
\* stop() and set_velocity() calls arrive (MaxSteps is where the model stops
\* calling update).
C9_KeepsCycling ==
    /\ \A p \in GaitPhase : [](phase = p /\ step_count < MaxSteps => <>(phase # p))
    /\ <>(step_count = MaxSteps)

\* C9 witness: the generator stepped up to the bound after stop() was called
\* during its first double support
C9_Witness ==
    /\ step_count = MaxSteps
    /\ Stopped
    /\ swing_log # <<>>
    /\ op = "update"

\* C11: after stop(), every update made one step_period or more after the
\* stop returns 0 for every joint (stop() arrives by LastStopTime).
C11_SettlesAfterStop ==
    (op = "update" /\ ret = "joints" /\ Stopped
        /\ total_time >= LastStopTime + params.step_period * 10) =>
        joints = ZeroPose

\* C12: reset() puts the machine into DOUBLE_SUPPORT with phase_time,
\* total_time and step_count 0, leaves the parameters and the durations
\* alone, and a second reset changes nothing.
C12_ResetFrame ==
    [][ /\ op' = "reset" =>
            /\ phase' = DOUBLE_SUPPORT
            /\ phase_time' = 0
            /\ total_time' = 0
            /\ step_count' = 0
            /\ UNCHANGED <<params, double_dur, swing_dur>>
        /\ (op = "reset" /\ op' = "reset") =>
            UNCHANGED <<phase, phase_time, total_time, step_count>> ]_vars

\* C12 witness: reset() was called on a generator that had walked through two
\* swing phases and had been stopped and commanded forward again
C12_Witness ==
    /\ op = "reset"
    /\ Len(swing_log) = 2
    /\ params.step_height = 0
    /\ params.step_length = 100
    /\ step_count = 0
    /\ total_time = 0

\* C13: set_velocity(forward, turn) writes step_length and turn_rate and
\* nothing else: the other parameters, the durations, the phase, the timers
\* and step_count are unchanged.
C13_SetVelocityFrame ==
    [][ op' = "set_velocity" =>
          /\ \E f \in ForwardSet, t \in TurnSet :
                params' = [params EXCEPT !.step_length = f, !.turn_rate = t]
          /\ UNCHANGED <<phase, phase_time, total_time, step_count,
                         double_dur, swing_dur>> ]_vars

\* C13 witness: set_velocity was called in the middle of a swing phase after
\* stop(), and step_height is still 0
C13_Witness ==
    /\ op = "set_velocity"
    /\ phase \in SwingPhases
    /\ phase_time > 0
    /\ phase_time < swing_dur
    /\ params.step_height = 0
    /\ params.step_length = 100
    /\ params.turn_rate = 15

\* r * T and T of the generator, in the unit of total_time
SwingStart == params.step_period * params.double_support_ratio
StepPeriod == params.step_period * 10

\* the update that has just lifted the first foot
FirstSwingTick ==
    /\ op = "update"
    /\ step_count = 0
    /\ phase \in SwingPhases
    /\ phase_time = 0

\* the update that has just put the first foot down
FirstReturnTick ==
    /\ op = "update"
    /\ step_count = 1
    /\ phase = DOUBLE_SUPPORT
    /\ phase_time = 0

\* C14 as stated: with a fixed tick dt > 0 the first swing phase starts within
\* one tick of r * T and the first return to DOUBLE_SUPPORT happens within
\* one tick of T.
C14_Original ==
    /\ FirstSwingTick => Abs(total_time - SwingStart) <= arg_dt
    /\ FirstReturnTick => Abs(total_time - StepPeriod) <= arg_dt

\* C14: with a fixed tick dt > 0 the first swing phase starts at a time t with
\* r * T <= t <= r * T + dt, and the first return to DOUBLE_SUPPORT happens at
\* a time t with T <= t <= T + 2 dt.
C14_TransitionTimes ==
    /\ (op = "update" /\ step_count = 0 /\ phase = DOUBLE_SUPPORT) =>
          total_time < SwingStart
    /\ FirstSwingTick =>
          /\ SwingStart <= total_time
          /\ total_time <= SwingStart + arg_dt
    /\ FirstReturnTick =>
          /\ StepPeriod <= total_time
          /\ total_time <= StepPeriod + 2 * arg_dt

\* C14 witness: with a tick that divides neither duration the first foot was
\* put down more than one tick after T
C14_Witness ==
    /\ FirstReturnTick
    /\ total_time > StepPeriod + arg_dt

\* the scenario: step_period 2.0, double_support_ratio 0.3, dt 0.01
Scenario ==
    /\ op = "update"
    /\ arg_dt = 1
    /\ params.step_period = 20
    /\ params.double_support_ratio = 3
    /\ total_time <= 300

\* C15 as stated: LEFT_SWING for the first time after tick 60, back in
\* DOUBLE_SUPPORT for the first time after tick 170, with step_count 1.
C15_Original ==
    Scenario =>
        /\ total_time < 60 => (phase = DOUBLE_SUPPORT /\ step_count = 0)
        /\ (60 <= total_time /\ total_time < 170) =>
              (phase = LEFT_SWING /\ step_count = 0)
        /\ total_time = 170 => (phase = DOUBLE_SUPPORT /\ step_count = 1)

\* C15: LEFT_SWING for the first time after tick 60, back in DOUBLE_SUPPORT
\* for the first time after tick 200 (t = 2.00 s), with step_count 1 from
\* then on to tick 300.
C15_Scenario ==
    Scenario =>
        /\ total_time < 60 => (phase = DOUBLE_SUPPORT /\ step_count = 0)
        /\ (60 <= total_time /\ total_time < 200) =>
              (phase = LEFT_SWING /\ step_count = 0)
        /\ total_time = 200 => (phase = DOUBLE_SUPPORT /\ phase_time = 0)
        /\ total_time >= 200 => step_count = 1

\* C15 witness: tick 200 of the scenario
C15_Witness ==
    /\ Scenario
    /\ total_time = 200
    /\ phase = DOUBLE_SUPPORT
    /\ step_count = 1

\* C16: update never raises, for every dt and every configuration with
\* step_period >= 0 and 0 <= double_support_ratio <= 1.
C16_NeverRaises == op = "update" => ret = "joints"

----------------------------------------------------------------------------
\* Properties of the controllers

\* C5: the roll and pitch integrals stay within integral_limit and the
\* height integral within 0.05, in every reachable state of the controllers.
C5_IntegralsBounded ==
    /\ Abs(sc_posture.ri) <= integral_limit
    /\ Abs(sc_posture.pi) <= integral_limit
    /\ Abs(sc_com.i) <= com_integral_limit

\* C5 witness: compute_control with dt > 0 has driven the roll integral and
\* the height integral onto their limits
C5_Witness ==
    /\ sc_op = "compute_control"
    /\ sc_dt > 0
    /\ sc_posture.ri = -integral_limit
    /\ sc_com.i = -com_integral_limit

\* the delta compute_control adds for joint j, from the corrections returned
RawDelta(j) ==
    Get(ComputeJointCorrections(sc_ret.rc, sc_ret.pc), j)
        + Get(ComputeLegExtension(sc_ret.hc), j)

\* C6: every joint target compute_control returns is within max_correction of
\* its base value; the posture and height deltas are clamped as one sum.
C6_DeltaClamped ==
    sc_op = "compute_control" =>
        \A j \in JointNames :
            LET d == sc_ret.out[j] - base_pose[j]
            IN  /\ Abs(d) <= max_correction
                /\ Abs(RawDelta(j)) <= max_correction => d = RawDelta(j)
                /\ RawDelta(j) > max_correction => d = max_correction
                /\ RawDelta(j) < -max_correction => d = -max_correction

\* C6 witness: with the knees of the base pose bent, compute_control returned
\* a knee target at base + max_correction and a hip pitch target whose two
\* deltas were clamped together
C6_Witness ==
    /\ sc_op = "compute_control"
    /\ base_pose["left_knee"] = 20000
    /\ sc_ret.out["left_knee"] = 20000 + max_correction
    /\ sc_ret.pc # 0
    /\ sc_ret.out["left_hip_pitch"] = -max_correction

\* C7: in the locomotion loop final[j] = gait[j] + clip(correction[j], -2, 2)
\* for every joint of the gait output, the joints without a posture
\* correction pass through, and final has exactly the joints of the gait output.
C7_LoopComposition ==
    (op = "update" /\ ret = "joints") =>
        /\ DOMAIN final = DOMAIN joints
        /\ \A j \in DOMAIN joints :
            LET d == final[j] - joints[j]
            IN  /\ Abs(d) <= loop_correction
                /\ j \in DOMAIN pid_corr =>
                     /\ Abs(pid_corr[j]) <= loop_correction => d = pid_corr[j]
                     /\ pid_corr[j] > loop_correction => d = loop_correction
                     /\ pid_corr[j] < -loop_correction => d = -loop_correction
                /\ j \notin DOMAIN pid_corr => d = 0
        /\ \A j \in {"head_pitch", "left_knee", "right_knee"} : final[j] = joints[j]

\* C7 witness: a tick in a left swing with the knee lifted, a correction
\* beyond +2 degrees on the ankles and beyond -2 degrees on the hips
C7_Witness ==
    /\ op = "update"
    /\ ret = "joints"
    /\ phase = LEFT_SWING
    /\ joints["left_knee"] > 0
    /\ final["left_knee"] = joints["left_knee"]
    /\ pid_corr["left_ankle_pitch"] > loop_correction
    /\ final["left_ankle_pitch"] = joints["left_ankle_pitch"] + loop_correction
    /\ pid_corr["left_hip_pitch"] < -loop_correction

\* the methods that run PostureController.update, CenterOfMassController.update
PostureCalls == {"posture.update", "compute_control"}
ComCalls     == {"com.update", "compute_control"}

\* kp * e + ki * i for the error and the integral stored after the call
ProportionalIntegral(g, e, i) == g.kp * e * 10 + Div(g.ki * i, 10)

\* C17: an update with dt <= 0 returns kp * error + ki * integral, where error
\* is the error stored by the call; with dt = 0 the call leaves the integral
\* unchanged.
C17_DegenerateDt ==
    [][ /\ (sc_op' \in PostureCalls /\ sc_dt' <= 0) =>
            /\ sc_ret'.rc = ProportionalIntegral(sc_posture'.roll_gains,
                                                 sc_posture'.re, sc_posture'.ri)
            /\ sc_ret'.pc = ProportionalIntegral(sc_posture'.pitch_gains,
                                                 sc_posture'.pe, sc_posture'.pi)
            /\ sc_dt' = 0 => (sc_posture'.ri = sc_posture.ri /\ sc_posture'.pi = sc_posture.pi)
        /\ (sc_op' \in ComCalls /\ sc_dt' <= 0) =>
            /\ sc_ret'.hc = ProportionalIntegral(sc_com'.gains, sc_com'.e, sc_com'.i)
            /\ sc_dt' = 0 => sc_com'.i = sc_com.i ]_vars

\* C17 witness: compute_control with dt = 0 on controllers with non-zero
\* integrals and errors
C17_Witness ==
    /\ sc_op = "compute_control"
    /\ sc_dt = 0
    /\ sc_posture.ri # 0
    /\ sc_posture.re # 0
    /\ sc_com.i # 0
    /\ sc_com.e # 0
    /\ sc_ret.rc # 0

----------------------------------------------------------------------------
\* Properties of the inverse kinematics

\* the geometry the last call worked with
UsedGeom == GeomOrDefault(geom)

\* d > m for the distance d
Exceeds(d, m) == d.floor > m \/ (d.floor = m /\ ~d.exact)

\* C18: solve_leg_ik is never run with a geometry whose thigh_length or
\* calf_length is zero or negative.
C18_InvalidGeometryRejected ==
    ik_op # "init" =>
        /\ UsedGeom.thigh_length > 0
        /\ UsedGeom.calf_length > 0

C20_Original ==
    (ik_op # "init" /\ UsedGeom.thigh_length > 0 /\ UsedGeom.calf_length > 0) =>
        LET L1 == UsedGeom.thigh_length
            L2 == UsedGeom.calf_length
            d  == Distance(ik_arg.x, ik_arg.z)
        IN  /\ Abs(L1 - L2) <= ik_ret.d
            /\ ik_ret.d <= L1 + L2
            /\ Exceeds(d, L1 + L2) => ik_ret.d = L1 + L2 - eps
            /\ d.floor < Abs(L1 - L2) => ik_ret.d = Abs(L1 - L2) + eps
            /\ (d.floor >= Abs(L1 - L2) /\ ~Exceeds(d, L1 + L2)) => ik_ret.d = d.floor

\* C20: the distance used is at least |L1-L2|+eps for every geometry; for a
\* geometry with segment lengths of at least eps it lies within
\* [|L1-L2|+eps, L1+L2], is L1+L2-eps for d > L1+L2, |L1-L2|+eps for
\* d < |L1-L2|+eps, and d for every d within [|L1-L2|+eps, L1+L2].
C20_EffectiveDistance ==
    ik_op # "init" =>
        LET L1 == UsedGeom.thigh_length
            L2 == UsedGeom.calf_length
            d  == Distance(ik_arg.x, ik_arg.z)
        IN  /\ Abs(L1 - L2) + eps <= ik_ret.d
            /\ (L1 >= eps /\ L2 >= eps) =>
                  /\ ik_ret.d <= L1 + L2
                  /\ Exceeds(d, L1 + L2) => ik_ret.d = L1 + L2 - eps
                  /\ d.floor < Abs(L1 - L2) + eps => ik_ret.d = Abs(L1 - L2) + eps
                  /\ (d.floor >= Abs(L1 - L2) + eps /\ ~Exceeds(d, L1 + L2)) =>
                        ik_ret.d = d.floor

\* C20 witness: with the default geometry a target at the distance |L1-L2|
\* exactly was moved out to |L1-L2|+eps
C20_Witness ==
    /\ ik_op = "solve_leg_ik"
    /\ UsedGeom.thigh_length = 120000
    /\ UsedGeom.calf_length = 100000
    /\ ik_arg.x = 0
    /\ ik_arg.z = -20000
    /\ ik_ret.d = 20001

----------------------------------------------------------------------------
\* Claims about the standing controller's rest output and the independence of
\* the roll and pitch loops

ZeroError ==
    /\ sc_posture.re = 0
    /\ sc_posture.pe = 0
    /\ sc_com.e = 0

ZeroMemory ==
    /\ sc_posture.ri = 0
    /\ sc_posture.pi = 0
    /\ sc_com.i = 0
    /\ ZeroError

\* C21 as stated: a compute_control call with roll = target_roll,
\* pitch = target_pitch, height = target_height and an all-zero base pose
\* returns 0 for every joint, whatever calls preceded it.  (The errors the
\* call stores are the errors of its arguments.)
C21_Original ==
    (sc_op = "compute_control" /\ ZeroError /\ base_pose = ZeroPose)
        => sc_ret.out = ZeroPose

\* C21 amended: a compute_control call with zero roll, pitch and height error
\* and an all-zero base pose returns 0 for every joint when the controller's
\* integrals and previous errors are all 0 before the call (a fresh or just
\* reset controller, or one that has only seen zero errors).
C21_RestOutput ==
    [][(ZeroMemory /\ base_pose = ZeroPose /\ sc_op' = "compute_control"
        /\ ZeroError')
          => sc_ret'.out = ZeroPose]_vars

C21_Witness ==
    /\ sc_op = "compute_control"
    /\ sc_dt > 0
    /\ ZeroMemory
    /\ base_pose = ZeroPose
    /\ sc_ret.out = ZeroPose
    /\ sc_ret.rc = 0 /\ sc_ret.hc = 0

\* C22: the roll loop and the pitch loop of a PostureController are
\* independent: two controllers with the same gains fed the same rolls and dt
\* return the same roll correction and hold the same roll integral and
\* previous roll error at every tick, whatever pitches each was fed; and the
\* same with roll and pitch exchanged.
C22_LoopsIndependent ==
    /\ pair_fed.roll =>
          /\ sc_ret.rc = pid_ret.rc
          /\ sc_posture.ri = posture_pid.ri
          /\ sc_posture.re = posture_pid.re
    /\ pair_fed.pitch =>
          /\ sc_ret.pc = pid_ret.pc
          /\ sc_posture.pi = posture_pid.pi
          /\ sc_posture.pe = posture_pid.pe

C22_Witness ==
    /\ sc_op = "posture.update"
    /\ sc_dt > 0
    /\ pair_fed.roll /\ ~pair_fed.pitch
    /\ sc_posture.pi # posture_pid.pi
    /\ sc_posture.pe # posture_pid.pe
    /\ sc_ret.pc # pid_ret.pc
    /\ sc_posture.ri # 0
    /\ sc_ret.rc # 0

----------------------------------------------------------------------------
\* Claims about the turn bias, the parameters and the resets

\* what _compute_joint_angles_direct returns in the same state with
\* turn_rate = 0
NoTurnJoints ==
    ComputeJointAnglesDirect(phase, phase_time, step_count,
                             [params EXCEPT !.turn_rate = 0],
                             double_dur, swing_dur)

\* sin(pi * progress) of the current state, in thousandths
SwingProfile ==
    LET progress == Progress(phase, phase_time, swing_dur)
    IN  SinPi(progress.num, progress.den)

\* the joints the turn bias may change in a phase
TurnJoints ==
    IF phase = LEFT_SWING THEN {"right_hip_pitch", "left_hip_roll"}
    ELSE IF phase = RIGHT_SWING THEN {"left_hip_pitch", "right_hip_roll"}
    ELSE {}

\* C23: turn_rate acts in the swing phases only.  In DOUBLE_SUPPORT update
\* returns the same joints for every turn_rate; in a swing phase the turn
\* contribution is turn_rate * 0.5 * sin(pi * progress) on the support leg's
\* hip_pitch and 0.3 times that on the swing leg's hip_roll (added in
\* LEFT_SWING, subtracted in RIGHT_SWING), so it is 0 at progress 0; no
\* other joint, and never a knee or an ankle_pitch, depends on turn_rate.
C23_TurnInSwingOnly ==
    (op = "update" /\ ret = "joints") =>
        /\ phase = DOUBLE_SUPPORT => joints = NoTurnJoints
        /\ \A j \in JointNames \ TurnJoints : joints[j] = NoTurnJoints[j]
        /\ phase_time = 0 => joints = NoTurnJoints
        /\ phase = LEFT_SWING =>
              /\ joints["right_hip_pitch"] - NoTurnJoints["right_hip_pitch"]
                    = Div(params.turn_rate * 500 * SwingProfile, 1000)
              /\ joints["left_hip_roll"] - NoTurnJoints["left_hip_roll"]
                    = Div(params.turn_rate * 1500 * SwingProfile, 10000)
        /\ phase = RIGHT_SWING =>
              /\ joints["left_hip_pitch"] - NoTurnJoints["left_hip_pitch"]
                    = -Div(params.turn_rate * 500 * SwingProfile, 1000)
              /\ joints["right_hip_roll"] - NoTurnJoints["right_hip_roll"]
                    = -Div(params.turn_rate * 1500 * SwingProfile, 10000)

C23_Witness ==
    /\ op = "update" /\ ret = "joints"
    /\ phase = LEFT_SWING
    /\ params.turn_rate # 0
    /\ joints["right_hip_pitch"] # NoTurnJoints["right_hip_pitch"]
    /\ joints["left_hip_roll"] # NoTurnJoints["left_hip_roll"]
    /\ joints["left_knee"] > 0

\* C24: GaitParams is read every tick: the transition check of every update
\* compares phase_time with step_period * double_support_ratio and
\* step_period * (1 - double_support_ratio) of the current GaitParams, so a
\* change of them made after construction takes effect from the next tick.
C24_DurationsFromCurrentParams ==
    [][op' = "update" =>
         LET t == CheckTransition(phase, phase_time + arg_dt', step_count,
                                  DoubleDur(params), SwingDur(params))
         IN  /\ phase' = t.phase
             /\ phase_time' = t.phase_time
             /\ step_count' = t.step_count]_vars

\* C25: PostureController.reset, CenterOfMassController.reset and
\* StandingController.reset (which resets both sub-controllers) zero every
\* integral and previous error and leave gains, targets, integral limit and
\* base pose as they were; the controller reset is in the state of a
\* controller freshly constructed with the same gains, targets and base
\* pose, so it returns the same outputs from then on.
C25_ResetIsFresh ==
    [][/\ sc_op' \in {"reset", "posture.reset"} =>
             /\ sc_posture' = [sc_posture EXCEPT !.ri = 0, !.pi = 0, !.re = 0, !.pe = 0]
             /\ sc_posture' = PostureController(sc_posture.roll_gains, sc_posture.pitch_gains)
       /\ sc_op' \in {"reset", "com.reset"} =>
             /\ sc_com' = [sc_com EXCEPT !.i = 0, !.e = 0]
             /\ sc_com' = CenterOfMassController
       /\ sc_op' = "posture.reset" => sc_com' = sc_com
       /\ sc_op' = "com.reset" => sc_posture' = sc_posture
       /\ sc_op' \in {"reset", "posture.reset", "com.reset"} =>
             base_pose' = base_pose]_vars

C25_Witness ==
    /\ sc_op = "com.reset"
    /\ sc_com = CenterOfMassController
    /\ sc_posture.ri # 0 /\ sc_posture.pe # 0
    /\ base_pose["left_knee"] = 20000

----------------------------------------------------------------------------
\* Claims about the order of the control loop

\* the step advances a controller or the gait generator, or plans targets
ControlAdvances ==
    \/ gaitVars' # gaitVars
    \/ ctlVars' # ctlVars
    \/ <<posture_pid, pid_ret, pid_corr, final>>' # <<posture_pid, pid_ret, pid_corr, final>>
    \/ lock'.controls = lock.controls + 1

\* C26: every pass of the standing and locomotion loops runs in lock-step:
\* the measured state is read first, then the controller or gait generator
\* is advanced exactly once with dt, then the targets are written once, then
\* the physics is advanced exactly 10 sub-steps; the next read comes only
\* after all the sub-steps of the pass before, and nothing is computed
\* between sub-steps.
C26_LockStep ==
    [][/\ (lock'.pc = "control" \/ meas' # meas) =>
             /\ lock.pc = "read"
             /\ lock.writes = 1
             /\ lock.substeps = 10
       /\ ControlAdvances =>
             /\ lock.pc = "control"
             /\ lock.controls = 0 /\ lock'.controls = 1
             /\ lock.writes = 0 /\ lock.substeps = 0
             /\ meas' = meas
             /\ lock.loop = "stepping" => op' = "update" /\ arg_dt' = loop_dt
             /\ lock.loop = "standing" => sc_op' = "compute_control" /\ sc_dt' = loop_dt
       /\ lock'.writes = lock.writes + 1 =>
             /\ lock.controls = 1
             /\ lock'.writes = 1
             /\ lock.substeps = 0
       /\ lock'.substeps = lock.substeps + 1 =>
             /\ lock.controls = 1
             /\ lock.writes = 1
             /\ lock.substeps < 10
             /\ ~ControlAdvances
             /\ meas' = meas]_vars

C26_Witness ==
    /\ lock.loop = "stepping"
    /\ lock.pc = "read"
    /\ lock.controls = 1 /\ lock.writes = 1 /\ lock.substeps = 10
    /\ step_count = 1
    /\ posture_pid.ri # 0

----------------------------------------------------------------------------
\* Claims about the forward kinematics of the solver's angles

\* L * s for a length L >= 0 in micrometres and s in millionths
Scale(L, s) ==
    LET a == Abs(s)
        q == ((L \div 1000) * a) \div 1000 + ((L % 1000) * a) \div 1000000
    IN  IF s < 0 THEN -q ELSE q

\* x = -L1 sin(h) - L2 sin(h + k), z = -L1 cos(h) - L2 cos(h + k), for h and
\* k in hundredths of a degree
FkX(h, k, L1, L2) == -Scale(L1, SinCenti(h)) - Scale(L2, SinCenti(h + k))
FkZ(h, k, L1, L2) == -Scale(L1, CosCenti(h)) - Scale(L2, CosCenti(h + k))

\* the target of the last call lies within the reach [|L1-L2|, L1+L2] of a
\* leg with positive segment lengths
WithinReach ==
    LET L1 == UsedGeom.thigh_length
        L2 == UsedGeom.calf_length
        d  == Distance(ik_arg.x, ik_arg.z)
    IN  /\ L1 > 0 /\ L2 > 0
        /\ d.floor >= Abs(L1 - L2)
        /\ ~Exceeds(d, L1 + L2)

\* C27: for every target within [|L1-L2|, L1+L2] of the hip the angles
\* solve_leg_ik returns reconstruct the target by forward kinematics within
\* 1e-3 m: x = -L1 sin(h) - L2 sin(h+k), z = -L1 cos(h) - L2 cos(h+k); and
\* ankle_pitch = -(hip_pitch + knee).
C27_ForwardKinematics ==
    (ik_op = "solve_leg_ik" /\ WithinReach) =>
        LET L1 == UsedGeom.thigh_length
            L2 == UsedGeom.calf_length
            h  == ik_ret.value.hip_pitch \div 10
            k  == ik_ret.value.knee \div 10
        IN  /\ Abs(FkX(h, k, L1, L2) - ik_arg.x) <= 1000
            /\ Abs(FkZ(h, k, L1, L2) - ik_arg.z) <= 1000
            /\ ik_ret.value.ankle_pitch = -(ik_ret.value.hip_pitch + ik_ret.value.knee)

\* C27 witness: a target behind and above the hip, within reach, solved with
\* a bent knee
C27_Witness ==
    /\ ik_op = "solve_leg_ik"
    /\ WithinReach
    /\ ik_arg.x = -100000 /\ ik_arg.z = 50000
    /\ UsedGeom.thigh_length = 120000
    /\ ik_ret.value.knee > 90000
    /\ ik_ret.value.hip_pitch > 0

----------------------------------------------------------------------------
\* Claims about the joint corrections and the lateral bias

Sign(x) == IF x > 0 THEN 1 ELSE IF x < 0 THEN -1 ELSE 0

\* C28: compute_joint_corrections is a fixed linear policy: left_hip_roll is
\* 0.3 times the roll correction and right_hip_roll its negative; the two
\* hip_pitch deltas are equal, 0.3 times the pitch correction; the two
\* ankle_pitch deltas are equal, -0.2 times the pitch correction, so of the
\* sign opposite to the hip_pitch delta; knees and head_pitch get no delta;
\* zero corrections give zero deltas.
C28_CorrectionSigns ==
    LET rc == pid_ret.rc
        pc == pid_ret.pc
    IN  /\ DOMAIN pid_corr = JointNames \ {"left_knee", "right_knee", "head_pitch"}
        /\ pid_corr["left_hip_roll"] = -pid_corr["right_hip_roll"]
        /\ Abs(10 * pid_corr["left_hip_roll"] - 3 * rc) < 10
        /\ Sign(pid_corr["left_hip_roll"]) \in {0, Sign(rc)}
        /\ pid_corr["left_hip_pitch"] = pid_corr["right_hip_pitch"]
        /\ Abs(10 * pid_corr["left_hip_pitch"] - 3 * pc) < 10
        /\ Sign(pid_corr["left_hip_pitch"]) \in {0, Sign(pc)}
        /\ pid_corr["left_ankle_pitch"] = pid_corr["right_ankle_pitch"]
        /\ Abs(10 * pid_corr["left_ankle_pitch"] + 2 * pc) < 10
        /\ Sign(pid_corr["left_ankle_pitch"]) \in {0, -Sign(pid_corr["left_hip_pitch"]), -Sign(pc)}
        /\ (rc = 0 /\ pc = 0) => \A j \in DOMAIN pid_corr : pid_corr[j] = 0
        /\ (op = "update" /\ ret = "joints") =>
              \A j \in {"left_knee", "right_knee", "head_pitch"} : final[j] = joints[j]

C28_Witness ==
    /\ pid_ret.rc > 0
    /\ pid_ret.pc < 0
    /\ pid_corr["left_hip_roll"] > 0
    /\ pid_corr["right_hip_roll"] < 0
    /\ pid_corr["left_hip_pitch"] < 0
    /\ pid_corr["right_ankle_pitch"] > 0
    /\ phase = LEFT_SWING
    /\ final["left_knee"] > 0

\* the lateral bias (com_roll) of the current state and the full bias
\* 100 * com_shift_y
Bias == ComRoll(phase, phase_time, step_count, params, double_dur)
FullBias == 100 * params.com_shift_y

\* the bias of a returned joint map: its value in the swing phases, its side
\* and size in DOUBLE_SUPPORT, and the hip_roll targets made of it
BiasTowardSupport ==
    /\ phase = LEFT_SWING => Bias = -FullBias
    /\ phase = RIGHT_SWING => Bias = FullBias
    /\ (phase = DOUBLE_SUPPORT /\ step_count % 2 = 0) => (-FullBias <= Bias /\ Bias <= 0)
    /\ (phase = DOUBLE_SUPPORT /\ step_count % 2 = 1) => (0 <= Bias /\ Bias <= FullBias)
    /\ (phase = DOUBLE_SUPPORT /\ phase_time >= double_dur) => Abs(Bias) = FullBias
    /\ params.turn_rate = 0 =>
          /\ joints["left_hip_roll"] = Div(3 * Bias, 10)
          /\ joints["right_hip_roll"] = Div(-3 * Bias, 10)

\* two updates in a row within one DOUBLE_SUPPORT phase: the bias does not
\* shrink
BiasGrows ==
    (op = "update" /\ ret = "joints" /\ phase = DOUBLE_SUPPORT
     /\ phase' = DOUBLE_SUPPORT /\ step_count' = step_count)
        => Abs(Bias') >= Abs(Bias)

\* C29 as stated: the bias is -100 com_shift_y in LEFT_SWING and
\* +100 com_shift_y in RIGHT_SWING; in DOUBLE_SUPPORT it ramps monotonically
\* from 0 at the start of the phase toward the full bias of the next swing
\* (negative for an even step_count, positive for an odd one); and
\* left_hip_roll = 0.3 bias, right_hip_roll = -0.3 bias when turn_rate = 0.
C29_Original ==
    [][(op' = "update" /\ ret' = "joints") =>
          /\ BiasTowardSupport'
          /\ BiasGrows
          /\ (phase' = DOUBLE_SUPPORT /\ phase_time' = 0) => Bias' = 0]_vars

\* C29 amended: as stated, with the ramp from 0 only when the double-support
\* duration is positive; when it is 0 the bias of DOUBLE_SUPPORT is the full
\* bias of the next swing from the start of the phase.
C29_LateralBias ==
    [][(op' = "update" /\ ret' = "joints") =>
          /\ BiasTowardSupport'
          /\ BiasGrows
          /\ (phase' = DOUBLE_SUPPORT /\ phase_time' = 0 /\ double_dur > 0) => Bias' = 0
          /\ (phase' = DOUBLE_SUPPORT /\ double_dur = 0) => Abs(Bias') = FullBias']_vars

\* C29 witness: part of the way through the double support after the first
\* step, the bias on its way to the right
C29_Witness ==
    /\ op = "update" /\ ret = "joints"
    /\ phase = DOUBLE_SUPPORT
    /\ step_count = 1
    /\ params.turn_rate = 0
    /\ 0 < Bias /\ Bias < FullBias
    /\ joints["left_hip_roll"] > 0
    /\ joints["right_hip_roll"] < 0

----------------------------------------------------------------------------
\* Claims about the duration of the steps

\* the update that has just completed a step
StepReturnTick ==
    /\ op = "update"
    /\ step_count >= 1
    /\ phase = DOUBLE_SUPPORT
    /\ phase_time = 0

\* C30 as stated: with a fixed tick dt > 0, step_count becomes k at a time
\* within one tick of k * step_period, for every k >= 1.
C30_Original ==
    StepReturnTick => Abs(total_time - step_count * StepPeriod) <= arg_dt

\* C30 amended: with a fixed tick dt > 0, step_count becomes k at a time t
\* with k * T <= t <= k * (T + 2 dt), so after a time t the step count is at
\* most floor(t / T) and at least floor(t / (T + 2 dt)).
C30_StepTimes ==
    op = "update" =>
        /\ step_count * StepPeriod <= total_time
        /\ total_time < (step_count + 1) * (StepPeriod + 2 * arg_dt)
        /\ StepReturnTick => total_time <= step_count * (StepPeriod + 2 * arg_dt)

\* C30 witness: with a tick that divides neither duration the second step
\* was completed more than two ticks after 2 T
C30_Witness ==
    /\ StepReturnTick
    /\ step_count = 2
    /\ total_time > 2 * StepPeriod + 2 * arg_dt

----------------------------------------------------------------------------
\* Parity and count of the steps

\* a swing phase has just been completed by an update
SwingCompleted == op' = "update" /\ phase \in SwingPhases /\ phase' = DOUBLE_SUPPORT

\* C31: in every state reachable by update, set_velocity, stop and reset,
\* step_count is even in LEFT_SWING and odd in RIGHT_SWING and never negative,
\* and it counts the swing phases completed since construction or the last
\* reset: it starts at 0, reset puts it back to 0, an update that completes a
\* swing phase adds 1, and nothing else changes it.
C31_StepCountParity ==
    /\ [](/\ phase = LEFT_SWING => step_count % 2 = 0
          /\ phase = RIGHT_SWING => step_count % 2 = 1
          /\ step_count >= 0
          /\ op = "init" => step_count = 0)
    /\ [][ step_count' = IF op' = "reset" THEN 0
                         ELSE IF SwingCompleted THEN step_count + 1
                         ELSE step_count ]_vars

\* C31 witness: RIGHT_SWING was entered, a reset put the count back to 0, and
\* the machine is in the middle of the LEFT_SWING that followed
C31_Witness ==
    /\ op = "update"
    /\ phase = LEFT_SWING
    /\ step_count = 0
    /\ phase_time > 0
    /\ swing_log = <<RIGHT_SWING, LEFT_SWING>>

----------------------------------------------------------------------------
\* One transition per update

\* the one edge of the cycle that leaves the active phase
NextEdge == IF phase = DOUBLE_SUPPORT THEN NextSwing(step_count) ELSE DOUBLE_SUPPORT

\* C32: one update(dt) makes at most one phase transition however large dt
\* is: when the advanced phase_time reaches the duration of the active phase
\* the machine takes exactly the one edge that leaves that phase, with
\* phase_time = 0 whatever the overshoot and step_count grown by 1 if a swing
\* ended and by 0 otherwise; if it does not reach it, phase and step_count
\* stay; and total_time is the sum of all dt since construction or the last
\* reset.
C32_OneTransitionPerUpdate ==
    /\ [](op = "init" => total_time = 0)
    /\ [][ /\ op' = "update" =>
                IF phase_time + arg_dt' >= PhaseDuration
                THEN /\ phase' = NextEdge
                     /\ phase_time' = 0
                     /\ step_count' = IF phase = DOUBLE_SUPPORT THEN step_count
                                      ELSE step_count + 1
                ELSE /\ phase' = phase
                     /\ phase_time' = phase_time + arg_dt'
                     /\ step_count' = step_count
            /\ total_time' = IF op' = "reset" THEN 0
                             ELSE IF op' = "update" THEN total_time + arg_dt'
                             ELSE total_time ]_vars

\* C32 witness: the first update of a generator with step_period 2.0 and
\* double_support_ratio 0.3, with dt = 2.4 s, longer than the whole step, has
\* lifted the left foot and gone no further, and a second one has put it down
C32_Witness ==
    /\ op = "update"
    /\ arg_dt = 240
    /\ params.step_period = 20
    /\ params.double_support_ratio = 3
    /\ phase = DOUBLE_SUPPORT
    /\ step_count = 1
    /\ phase_time = 0
    /\ total_time = 480

----------------------------------------------------------------------------
\* reset() against construction

\* C33: after reset(), from whatever phase and step_count, the generator is
\* in the state of a GaitGenerator freshly constructed with the current
\* GaitParams, the update that follows goes to the phase and returns the
\* joint targets that generator's first update would, and the next swing
\* phase entered is LEFT_SWING.
C33_ResetIsFresh ==
    /\ [](op = "reset" =>
            [phase |-> phase, phase_time |-> phase_time, total_time |-> total_time,
             step_count |-> step_count, double_dur |-> double_dur,
             swing_dur |-> swing_dur] = Fresh(params))
    /\ [][ (op = "reset" /\ op' = "update") =>
              LET u == UpdateOf(Fresh(params), params, arg_dt')
              IN  /\ phase' = u.phase
                  /\ phase_time' = u.phase_time
                  /\ step_count' = u.step_count
                  /\ total_time' = u.total_time
                  /\ joints' = u.joints
                  /\ phase' \in {DOUBLE_SUPPORT, LEFT_SWING} ]_vars

----------------------------------------------------------------------------
\* stop() and later commands

\* C34: stop() is not undone by set_velocity: stop() leaves step_height at 0,
\* a later set_velocity, update or reset leaves it at 0 while step_length and
\* turn_rate follow the command, and every update that returns from then on
\* has left_knee = right_knee = 0 in every phase.
C34_StopNotUndone ==
    /\ [][ /\ op' = "stop" => params'.step_height = 0
           /\ params.step_height = 0 => params'.step_height = 0
           /\ op' = "set_velocity" =>
                 /\ params'.step_length \in ForwardSet
                 /\ params'.turn_rate \in TurnSet
                 /\ params'.step_height = params.step_height ]_vars
    /\ []((op = "update" /\ ret = "joints" /\ params.step_height = 0) =>
            (joints["left_knee"] = 0 /\ joints["right_knee"] = 0))

\* C34 witness: after stop() a set_velocity commanded a forward step and a
\* turn, and an update returned in the middle of a swing phase
C34_Witness ==
    /\ op = "update"
    /\ ret = "joints"
    /\ params.step_height = 0
    /\ params.step_length = 100
    /\ params.turn_rate = 15
    /\ phase = RIGHT_SWING
    /\ phase_time > 0
    /\ phase_time < swing_dur
    /\ joints["right_hip_pitch"] # 0

----------------------------------------------------------------------------
\* Continuity of the joint targets

\* the leg that stands in a swing phase
SupportLeg(ph) == IF ph = LEFT_SWING THEN "right" ELSE "left"

\* the targets the phase change ph -> DOUBLE_SUPPORT or DOUBLE_SUPPORT -> ph
\* is about: both hip_roll targets and the support leg's hip_pitch and
\* ankle_pitch
EdgeJoints(ph) ==
    {"left_hip_roll", "right_hip_roll",
     SupportLeg(ph) \o "_hip_pitch", SupportLeg(ph) \o "_ankle_pitch"}

\* the largest value a target takes within a phase: the lateral bias and the
\* turn term for hip_roll, the bias, the push and the turn term for the
\* support leg's hip_pitch and ankle_pitch
Amplitude ==
    30 * params.com_shift_y + 500 * Abs(params.turn_rate)
        + 30 * Abs(params.step_length)

\* no step jump from one tick to the next: within a phase a target is an
\* amplitude times a sine or a ramp of phase_time / duration, so it moves by
\* less than 4 * amplitude * dt / duration per tick, which vanishes with dt
NoJump(j) ==
    Abs(joints'[j] - joints[j]) * double_dur * swing_dur
        <= 4 * Amplitude * arg_dt' * (double_dur + swing_dur)

\* the two kinds of phase change made by an update that follows an update
LiftTick ==
    /\ op = "update" /\ ret = "joints" /\ op' = "update" /\ ret' = "joints"
    /\ phase = DOUBLE_SUPPORT /\ phase' \in SwingPhases
LandTick ==
    /\ op = "update" /\ ret = "joints" /\ op' = "update" /\ ret' = "joints"
    /\ phase \in SwingPhases /\ phase' = DOUBLE_SUPPORT

\* C35: the joint targets of successive updates are continuous across phase
\* changes: at a DOUBLE_SUPPORT -> swing and at a swing -> DOUBLE_SUPPORT
\* transition the hip_roll targets and the support leg's hip_pitch and
\* ankle_pitch targets on the first tick of the new phase differ from the
\* last ones of the old phase by no more than a change that vanishes with dt.
C35_ContinuousTargets ==
    [][ /\ LiftTick => \A j \in EdgeJoints(phase') : NoJump(j)
        /\ LandTick => \A j \in EdgeJoints(phase) : NoJump(j) ]_vars

----------------------------------------------------------------------------
\* Direction of the turn bias

\* what the turn bias adds to the target of joint j in the current state
TurnTerm(j) == joints[j] - NoTurnJoints[j]

\* an update returned in the middle of a swing phase
MidSwing ==
    /\ op = "update" /\ ret = "joints"
    /\ phase \in SwingPhases
    /\ phase_time > 0
    /\ phase_time < swing_dur

\* C36: for a positive turn_rate the left leg pushes more and the right leg
\* less: in the swing phases the turn bias adds no negative amount to
\* left_hip_pitch, a positive one while the left leg stands (RIGHT_SWING), and
\* no positive amount to right_hip_pitch; a negative turn_rate gives the
\* mirrored signs.
C36_TurnDirection ==
    /\ (MidSwing /\ params.turn_rate > 0) =>
          /\ TurnTerm("left_hip_pitch") >= 0
          /\ phase = RIGHT_SWING => TurnTerm("left_hip_pitch") > 0
          /\ TurnTerm("right_hip_pitch") <= 0
    /\ (MidSwing /\ params.turn_rate < 0) =>
          /\ TurnTerm("left_hip_pitch") <= 0
          /\ phase = RIGHT_SWING => TurnTerm("left_hip_pitch") < 0
          /\ TurnTerm("right_hip_pitch") >= 0

----------------------------------------------------------------------------
\* Ownership of the parameters

\* set_velocity or stop was called on generator x in this step
Commanded(x) ==
    /\ other # <<>>
    /\ other'.called = x
    /\ (IF x = "g" THEN op' ELSE other'.op) \in {"set_velocity", "stop"}

\* the state machine of g, as a record
First ==
    [phase |-> phase, phase_time |-> phase_time, total_time |-> total_time,
     step_count |-> step_count, double_dur |-> double_dur, swing_dur |-> swing_dur]

\* the joint targets the next update(dt) of a generator in the state machine
\* f returns when it sees the parameters p
Targets(f, p) == [dt \in SharedDtSet |-> UpdateOf(f, p, dt).joints]

\* C37: each GaitGenerator exclusively owns its parameters: set_velocity or
\* stop on one generator changes neither the GaitParams seen by the other
\* generator nor the joint targets the other generator's next update
\* returns, also when both were constructed from the same GaitParams object,
\* and no call changes the caller's GaitParams object p.
C37_ExclusiveParams ==
    [][ /\ Commanded("h") =>
            /\ params' = params
            /\ Targets(First, params') = Targets(First, params)
        /\ Commanded("g") =>
            /\ Seen(other') = Seen(other)
            /\ Targets(other.gen, Seen(other')) = Targets(other.gen, Seen(other))
        /\ (other # <<>> /\ other' # <<>>) => other'.heap.p = other.heap.p ]_vars

====
